---------------------------- MODULE Spec2Model ----------------------------
(***************************************************************************)
(* QoS queuing simulation: the five queuing disciplines of                 *)
(* queuing_strategies.py (FCFS, Priority, Round-Robin, Fair Queue, LAS),   *)
(* the Packet ordering of packet.py and the event-stepping loop of         *)
(* simulation.py (Simulator.run).                                          *)
(*                                                                         *)
(* Times are naturals (the arithmetic of the code on integer-valued floats *)
(* is exact).  A Python Optional is a sequence of length 0 or 1.  A Python *)
(* dict is a sequence of [k, v] entries in insertion order.  A packet is a  *)
(* record held by the collection that owns it; `packets` keeps the packets *)
(* as they were offered, and a packet's start and finish times are read    *)
(* from the copy in processed_packets.                                     *)
(***************************************************************************)
EXTENDS Integers, Sequences, FiniteSets, TLC

VARIABLES
    name,                   \* QueueingStrategy.name: which discipline this is
    max_queue_size,         \* QueueingStrategy.max_queue_size (None = no bound)
    processed_packets,      \* QueueingStrategy.processed_packets
    dropped_packets,        \* QueueingStrategy.dropped_packets
    current_time,           \* QueueingStrategy.current_time
    queue,                  \* FCFSQueue.queue (deque)
    heap,                   \* PriorityQueue.heap (heapq list)
    num_queues,             \* RoundRobinQueue.num_queues
    queues,                 \* RoundRobinQueue.queues (list of deques)
    current_queue_index,    \* RoundRobinQueue.current_queue_index
    flow_queues,            \* FairQueue / LASQueue .flow_queues (dict)
    virtual_time,           \* FairQueue.virtual_time
    flow_finish_times,      \* FairQueue.flow_finish_times (dict)
    flow_service_received,  \* LASQueue.flow_service_received (dict)
    packets,                \* Simulator.run: its argument, then the sorted list
    packet_idx,             \* Simulator.run: cursor into the sorted list
    pc,                     \* Simulator.run: position ("api" outside a run)
    returned,               \* what the last process_next returned
    raised,                 \* the exception the last call raised ("" if none)
    rr_owed                 \* history: per container, the containers non-empty
                            \* since its last selection and not selected since

strategy_vars == <<name, max_queue_size, processed_packets, dropped_packets,
                   current_time, queue, heap, num_queues, queues,
                   current_queue_index, flow_queues, virtual_time,
                   flow_finish_times, flow_service_received>>
run_vars == <<packets, packet_idx, pc>>
vars == <<strategy_vars, run_vars, returned, raised, rr_owed>>

----------------------------------------------------------------------------
(* Bounds of the model *)

MaxPackets == 3
MaxBound == 2
MaxOps == 4

ArrivalTimes == {0, 2}
ServiceTimes == {1, 2}
Priorities == {1, 2}
QueueCounts == {2, 3}

----------------------------------------------------------------------------
(* Python values *)

None == <<>>
Some(x) == <<x>>
IsNone(o) == o = <<>>
Val(o) == o[1]

FCFS == "FCFS"
PQ == "Priority Queue"
RR == "Round-Robin"
FQ == "Fair Queue"
LAS == "LAS Queue"

\* dict: a sequence of entries [k |-> key, v |-> value] in insertion order
Keys(d) == {d[i].k : i \in DOMAIN d}
Has(d, key) == \E i \in DOMAIN d : d[i].k = key
Get(d, key) == d[CHOOSE i \in DOMAIN d : d[i].k = key].v
Put(d, key, val) ==
    IF Has(d, key)
    THEN [i \in DOMAIN d |-> IF d[i].k = key THEN [k |-> key, v |-> val] ELSE d[i]]
    ELSE Append(d, [k |-> key, v |-> val])

\* deque / list helpers
Last(s) == s[Len(s)]
Front(s) == SubSeq(s, 1, Len(s) - 1)

\* the concatenation of a list of lists
RECURSIVE Flatten(_)
Flatten(ss) == IF ss = <<>> THEN <<>> ELSE Head(ss) \o Flatten(Tail(ss))

RECURSIVE SumLen(_)
SumLen(d) == IF d = <<>> THEN 0 ELSE Len(Head(d).v) + SumLen(Tail(d))

----------------------------------------------------------------------------
(* packet.py *)

Packet(packet_id, arrival_time, priority, service_time) ==
    [id |-> packet_id, arrival_time |-> arrival_time, priority |-> priority,
     service_time |-> service_time, start_time |-> None, finish_time |-> None]

\* mutant of Lt: the priority comparison is not negated
LtLowPriorityFirst(self, other) ==
    IF self.priority # other.priority
    THEN self.priority < other.priority
    ELSE self.arrival_time < other.arrival_time

\* Packet.__lt__
Lt(self, other) ==
    IF self.priority # other.priority
    THEN self.priority > other.priority
    ELSE self.arrival_time < other.arrival_time

\* mutant of Serviced: the finish time is the clock before the service
ServicedFinishAtStart(p, now) ==
    [p EXCEPT !.start_time = Some(now), !.finish_time = Some(now)]

\* mutant of Serviced: the start time is not recorded
ServicedNoStart(p, now) ==
    [p EXCEPT !.finish_time = Some(now + p.service_time)]

\* set_start_time(now); current_time += service_time; set_finish_time(current_time)
Serviced(p, now) ==
    [p EXCEPT !.start_time = Some(now), !.finish_time = Some(now + p.service_time)]


----------------------------------------------------------------------------
(* QueueingStrategy.__init__ and the constructors of the five disciplines *)

fixed_vars == <<name, max_queue_size, num_queues>>

\* the state a constructor leaves: FCFSQueue(max_queue_size), PriorityQueue(),
\* RoundRobinQueue(num_queues), FairQueue(max_queue_size), LASQueue(max_queue_size)
Constructed(kind, bound, n) ==
    /\ name = kind
    /\ max_queue_size = bound
    /\ processed_packets = <<>>
    /\ dropped_packets = <<>>
    /\ current_time = 0
    /\ queue = <<>>
    /\ heap = <<>>
    /\ num_queues = n
    /\ queues = [i \in 1..n |-> <<>>]
    /\ current_queue_index = 0
    /\ flow_queues = <<>>
    /\ virtual_time = 0
    /\ flow_finish_times = <<>>
    /\ flow_service_received = <<>>
    /\ returned = None
    /\ raised = ""
    /\ rr_owed = [i \in 1..n |-> {}]

\* the bounds a constructor can be given
Bounds == {None} \cup {Some(b) : b \in 0..MaxBound}

\* FairQueue divides its bound among the flows: one more value, so that the
\* share of two flows has a remainder
FQBounds == Bounds \cup {Some(MaxBound + 1)}

\* the (kind, bound, num_queues) triples the constructors produce
Configs ==
    ({FCFS, LAS} \X Bounds \X {0})
        \cup ({FQ} \X FQBounds \X {0})
        \cup ({PQ} \X {None} \X {0})
        \cup ({RR} \X {None} \X QueueCounts)

----------------------------------------------------------------------------
(* FCFSQueue *)

\* mutant of FCFSFull: the queue counts as full only above the bound
FCFSFullAboveBound ==
    ~IsNone(max_queue_size) /\ Len(queue) > Val(max_queue_size)

\* mutant of FCFSFull: a missing bound is taken for a full queue
FCFSFullWhenUnbounded ==
    IsNone(max_queue_size) \/ Len(queue) >= Val(max_queue_size)

FCFSFull ==
    ~IsNone(max_queue_size) /\ Len(queue) >= Val(max_queue_size)

\* mutant of FCFSAdd: the bound is not looked at
FCFSAddUnbounded(packet) ==
    /\ queue' = Append(queue, packet)
    /\ dropped_packets' = dropped_packets
    /\ raised' = ""
    /\ UNCHANGED <<fixed_vars, processed_packets, current_time, heap, queues,
                   current_queue_index, flow_queues, virtual_time,
                   flow_finish_times, flow_service_received, returned, rr_owed>>

\* mutant of FCFSAdd: below the bound the packet is queued or dropped, either
\* can happen
FCFSAddOrDrop(packet) ==
    /\ \/ dropped_packets' = Append(dropped_packets, packet) /\ queue' = queue
       \/ ~FCFSFull /\ queue' = Append(queue, packet)
                    /\ dropped_packets' = dropped_packets
    /\ raised' = ""
    /\ UNCHANGED <<fixed_vars, processed_packets, current_time, heap, queues,
                   current_queue_index, flow_queues, virtual_time,
                   flow_finish_times, flow_service_received, returned, rr_owed>>

FCFSAdd(packet) ==
    /\ IF FCFSFull
       THEN dropped_packets' = Append(dropped_packets, packet) /\ queue' = queue
       ELSE queue' = Append(queue, packet) /\ dropped_packets' = dropped_packets
    /\ raised' = ""
    /\ UNCHANGED <<fixed_vars, processed_packets, current_time, heap, queues,
                   current_queue_index, flow_queues, virtual_time,
                   flow_finish_times, flow_service_received, returned, rr_owed>>

FCFSProcess ==
    /\ IF queue = <<>>
       THEN /\ returned' = None
            /\ UNCHANGED <<queue, current_time, processed_packets>>
       ELSE LET packet == Serviced(Head(queue), current_time) IN
            /\ queue' = Tail(queue)
            /\ current_time' = current_time + packet.service_time
            /\ processed_packets' = Append(processed_packets, packet)
            /\ returned' = Some(packet)
    /\ raised' = ""
    /\ UNCHANGED <<fixed_vars, dropped_packets, heap, queues,
                   current_queue_index, flow_queues, virtual_time,
                   flow_finish_times, flow_service_received, rr_owed>>

FCFSIsEmpty == Len(queue) = 0

----------------------------------------------------------------------------
(* PriorityQueue: heapq.heappush / heapq.heappop over Packet.__lt__.        *)
(* Positions are 0-based as in heapq; the list is 1-based.                 *)

RECURSIVE SiftDown(_, _, _, _)
SiftDown(h, startpos, pos, newitem) ==
    LET parentpos == (pos - 1) \div 2 IN
    IF pos > startpos /\ Lt(newitem, h[parentpos + 1])
    THEN SiftDown([h EXCEPT ![pos + 1] = h[parentpos + 1]], startpos, parentpos, newitem)
    ELSE [h EXCEPT ![pos + 1] = newitem]

RECURSIVE SiftUp(_, _, _)
SiftUp(h, pos, newitem) ==
    LET endpos == Len(h)
        childpos == 2 * pos + 1
        rightpos == childpos + 1
        child == IF rightpos < endpos /\ ~Lt(h[childpos + 1], h[rightpos + 1])
                 THEN rightpos ELSE childpos
    IN  IF childpos < endpos
        THEN SiftUp([h EXCEPT ![pos + 1] = h[child + 1]], child, newitem)
        ELSE SiftDown([h EXCEPT ![pos + 1] = newitem], 0, pos, newitem)

HeapPush(h, item) == SiftDown(Append(h, item), 0, Len(h), item)

HeapPop(h) ==
    LET lastelt == Last(h)
        rest == Front(h)
    IN  IF rest # <<>>
        THEN [item |-> rest[1], heap |-> SiftUp([rest EXCEPT ![1] = lastelt], 0, lastelt)]
        ELSE [item |-> lastelt, heap |-> rest]

PQAdd(packet) ==
    /\ heap' = HeapPush(heap, packet)
    /\ raised' = ""
    /\ UNCHANGED <<fixed_vars, processed_packets, dropped_packets, current_time,
                   queue, queues, current_queue_index, flow_queues, virtual_time,
                   flow_finish_times, flow_service_received, returned, rr_owed>>

PQProcess ==
    /\ IF heap = <<>>
       THEN /\ returned' = None
            /\ UNCHANGED <<heap, current_time, processed_packets>>
       ELSE LET popped == HeapPop(heap)
                packet == Serviced(popped.item, current_time)
            IN  /\ heap' = popped.heap
                /\ current_time' = current_time + packet.service_time
                /\ processed_packets' = Append(processed_packets, packet)
                /\ returned' = Some(packet)
    /\ raised' = ""
    /\ UNCHANGED <<fixed_vars, dropped_packets, queue, queues,
                   current_queue_index, flow_queues, virtual_time,
                   flow_finish_times, flow_service_received, rr_owed>>

PQIsEmpty == Len(heap) = 0

----------------------------------------------------------------------------
(* RoundRobinQueue.  Containers are numbered from 0 as in the code;        *)
(* queues[i + 1] is container i.                                           *)

\* mutant of RRQueueIdx: the container is chosen by admission order
RRQueueIdxByOrder(packet) == Len(Flatten(queues)) % num_queues

RRQueueIdx(packet) == packet.id % num_queues

\* with num_queues = 0 the modulo raises; with num_queues < 0 the list of
\* containers is empty and indexing it raises
RRAdd(packet) ==
    /\ IF num_queues = 0
       THEN raised' = "ZeroDivisionError" /\ queues' = queues
       ELSE IF queues = <<>>
       THEN raised' = "IndexError" /\ queues' = queues
       ELSE /\ queues' = [queues EXCEPT ![RRQueueIdx(packet) + 1] = Append(@, packet)]
            /\ raised' = ""
    /\ UNCHANGED <<fixed_vars, processed_packets, dropped_packets, current_time,
                   queue, heap, current_queue_index, flow_queues, virtual_time,
                   flow_finish_times, flow_service_received, returned, rr_owed>>

\* mutant of RRScan: the pointer stops at the last container instead of
\* wrapping around
RECURSIVE RRScanNoWrap(_, _)
RRScanNoWrap(index, attempts) ==
    IF attempts < num_queues /\ queues[index + 1] = <<>>
    THEN RRScanNoWrap(IF index + 1 < num_queues THEN index + 1 ELSE index, attempts + 1)
    ELSE [index |-> index, attempts |-> attempts]

\* the loop "while attempts < num_queues": where it stops
RECURSIVE RRScan(_, _)
RRScan(index, attempts) ==
    IF attempts < num_queues /\ queues[index + 1] = <<>>
    THEN RRScan((index + 1) % num_queues, attempts + 1)
    ELSE [index |-> index, attempts |-> attempts]

\* mutant of RRAdvance: the pointer stays on the container just served
RRStay(index) == index

\* the pointer after a packet was taken from container `index`
RRAdvance(index) == (index + 1) % num_queues

\* history: the containers that are non-empty once this selection is made
RRNonEmptyAfter(qs, index) ==
    {j \in 1..num_queues : j # index + 1 /\ qs[j] # <<>>}

RRProcess ==
    LET scan == RRScan(current_queue_index, 0) IN
    /\ IF scan.attempts >= num_queues
       THEN /\ current_queue_index' = scan.index
            /\ returned' = None
            /\ UNCHANGED <<queues, current_time, processed_packets, rr_owed>>
       ELSE LET head == Head(queues[scan.index + 1])
                packet == [head EXCEPT
                             !.start_time = IF IsNone(@) THEN Some(current_time) ELSE @,
                             !.finish_time = Some(current_time + head.service_time)]
            IN  /\ queues' = [queues EXCEPT ![scan.index + 1] = Tail(@)]
                /\ current_time' = current_time + packet.service_time
                /\ processed_packets' = Append(processed_packets, packet)
                /\ current_queue_index' = RRAdvance(scan.index)
                /\ returned' = Some(packet)
                /\ rr_owed' = [j \in 1..num_queues |->
                                 IF j = scan.index + 1
                                 THEN RRNonEmptyAfter(queues', scan.index)
                                 ELSE rr_owed[j] \ {scan.index + 1}]
    /\ raised' = ""
    /\ UNCHANGED <<fixed_vars, dropped_packets, queue, heap, flow_queues,
                   virtual_time, flow_finish_times, flow_service_received>>

RRIsEmpty == \A i \in 1..num_queues : Len(queues[i]) = 0

----------------------------------------------------------------------------
(* FairQueue *)

\* mutant of GetFlowId: every packet belongs to flow 1
GetFlowIdOne(packet) == 1

GetFlowId(packet) == packet.priority

\* mutant of PerFlowLimit: the share is not raised to 1
PerFlowLimitNoFloor(bound, num_flows) ==
    bound \div num_flows

\* mutant of PerFlowLimit: the bound is not divided among the flows
PerFlowLimitWholeBound(bound, num_flows) ==
    IF bound > 1 THEN bound ELSE 1

\* per_flow_limit = max(1, max_queue_size // num_flows)
PerFlowLimit(bound, num_flows) ==
    IF bound \div num_flows > 1 THEN bound \div num_flows ELSE 1

FQAdd(packet) ==
    LET flow_id == GetFlowId(packet)
        fqs == IF Has(flow_queues, flow_id) THEN flow_queues
               ELSE Put(flow_queues, flow_id, <<>>)
        fts == IF Has(flow_queues, flow_id) THEN flow_finish_times
               ELSE Put(flow_finish_times, flow_id, 0)
        over == /\ ~IsNone(max_queue_size)
                /\ Len(Get(fqs, flow_id)) >= PerFlowLimit(Val(max_queue_size), Len(fqs))
    IN  /\ flow_finish_times' = fts
        /\ IF over
           THEN /\ dropped_packets' = Append(dropped_packets, packet)
                /\ flow_queues' = fqs
           ELSE /\ flow_queues' = Put(fqs, flow_id, Append(Get(fqs, flow_id), packet))
                /\ dropped_packets' = dropped_packets
        /\ raised' = ""
        /\ UNCHANGED <<fixed_vars, processed_packets, current_time, queue, heap,
                       queues, current_queue_index, virtual_time,
                       flow_service_received, returned, rr_owed>>

\* min(d.keys(), key=lambda fid: (times[fid], fid))
FQMinFlow(d, times) ==
    CHOOSE f \in Keys(d) : \A g \in Keys(d) :
        \/ Get(times, f) < Get(times, g)
        \/ Get(times, f) = Get(times, g) /\ f <= g

\* min(times.values())
MinValue(times) ==
    CHOOSE x \in {times[i].v : i \in DOMAIN times} :
        \A i \in DOMAIN times : x <= times[i].v

\* "Remove empty flow queues": the entries that stay
Pruned(d, fqs) == SelectSeq(d, LAMBDA e : Has(fqs, e.k) /\ Get(fqs, e.k) # <<>>)

FQProcess ==
    LET fqs == Pruned(flow_queues, flow_queues)
        fts == SelectSeq(flow_finish_times,
                         LAMBDA e : ~(Has(flow_queues, e.k) /\ Get(flow_queues, e.k) = <<>>))
    IN
    /\ IF flow_queues = <<>>
       THEN /\ returned' = None
            /\ UNCHANGED <<flow_queues, flow_finish_times, virtual_time,
                           current_time, processed_packets>>
       ELSE IF fqs = <<>>
       THEN /\ flow_queues' = fqs
            /\ flow_finish_times' = fts
            /\ returned' = None
            /\ UNCHANGED <<virtual_time, current_time, processed_packets>>
       ELSE LET min_flow_id == FQMinFlow(fqs, fts)
                head == Head(Get(fqs, min_flow_id))
                packet == Serviced(head, current_time)
                fts2 == Put(fts, min_flow_id, Get(fts, min_flow_id) + head.service_time)
            IN  /\ flow_queues' = Put(fqs, min_flow_id, Tail(Get(fqs, min_flow_id)))
                /\ flow_finish_times' = fts2
                /\ virtual_time' = MinValue(fts2)
                /\ current_time' = current_time + packet.service_time
                /\ processed_packets' = Append(processed_packets, packet)
                /\ returned' = Some(packet)
    /\ raised' = ""
    /\ UNCHANGED <<fixed_vars, dropped_packets, queue, heap, queues,
                   current_queue_index, flow_service_received, rr_owed>>

FlowsIsEmpty == \A i \in DOMAIN flow_queues : Len(flow_queues[i].v) = 0

----------------------------------------------------------------------------
(* LASQueue *)

\* mutant of LASDropKey: a flow without queued packets keeps its service as key
LASDropKeyService(fqs, e) == e.v

\* key=lambda x: x[1] if self.flow_queues.get(x[0]) else -1
LASDropKey(fqs, e) ==
    IF Has(fqs, e.k) /\ Get(fqs, e.k) # <<>> THEN e.v ELSE -1

\* mutant of LASMaxServiceFlow: min() in place of max()
LASMinServiceFlow(fqs, received) ==
    LET i == CHOOSE i \in DOMAIN received :
                /\ \A j \in DOMAIN received :
                       LASDropKey(fqs, received[j]) >= LASDropKey(fqs, received[i])
                /\ \A j \in 1..(i - 1) :
                       LASDropKey(fqs, received[j]) > LASDropKey(fqs, received[i])
    IN  received[i].k

\* max(self.flow_service_received.items(), key=...)[0]: the first entry, in
\* insertion order, whose key is maximal
LASMaxServiceFlow(fqs, received) ==
    LET i == CHOOSE i \in DOMAIN received :
                /\ \A j \in DOMAIN received :
                       LASDropKey(fqs, received[j]) <= LASDropKey(fqs, received[i])
                /\ \A j \in 1..(i - 1) :
                       LASDropKey(fqs, received[j]) < LASDropKey(fqs, received[i])
    IN  received[i].k

\* mutant of LASEnqueue: the flow's deque is replaced instead of appended to
LASEnqueueReplace(fqs, packet) == Put(fqs, GetFlowId(packet), <<packet>>)

\* the flow queues after "Create new flow queue if needed" and the append
LASEnqueue(fqs, packet) ==
    LET flow_id == GetFlowId(packet)
        d == IF Has(fqs, flow_id) THEN fqs ELSE Put(fqs, flow_id, <<>>)
    IN  Put(d, flow_id, Append(Get(d, flow_id), packet))

\* mutant of LASPopTail: the tail is read but not removed
LASPeekTail(fqs, flow_id) == fqs

\* self.flow_queues[max_service_flow].pop(): the flow queues once the tail is taken
LASPopTail(fqs, flow_id) == Put(fqs, flow_id, Front(Get(fqs, flow_id)))

LASAdd(packet) ==
    LET flow_id == GetFlowId(packet)
        at_bound == ~IsNone(max_queue_size)
                      /\ SumLen(flow_queues) >= Val(max_queue_size)
        received == IF Has(flow_queues, flow_id) THEN flow_service_received
                    ELSE Put(flow_service_received, flow_id, 0)
    IN
    IF at_bound /\ flow_service_received = <<>>
    THEN \* max() of an empty sequence
         /\ raised' = "ValueError"
         /\ UNCHANGED <<strategy_vars, returned, rr_owed>>
    ELSE /\ raised' = ""
         /\ IF at_bound
            THEN LET max_service_flow ==
                         LASMaxServiceFlow(flow_queues, flow_service_received)
                 IN  IF Has(flow_queues, max_service_flow)
                           /\ Get(flow_queues, max_service_flow) # <<>>
                     THEN LET q == Get(flow_queues, max_service_flow)
                              fqs == LASPopTail(flow_queues, max_service_flow)
                          IN  /\ dropped_packets' = Append(dropped_packets, Last(q))
                              /\ flow_queues' = LASEnqueue(fqs, packet)
                              /\ flow_service_received' = received
                     ELSE /\ dropped_packets' = Append(dropped_packets, packet)
                          /\ UNCHANGED <<flow_queues, flow_service_received>>
            ELSE /\ flow_queues' = LASEnqueue(flow_queues, packet)
                 /\ flow_service_received' = received
                 /\ dropped_packets' = dropped_packets
         /\ UNCHANGED <<fixed_vars, processed_packets, current_time, queue, heap,
                        queues, current_queue_index, virtual_time,
                        flow_finish_times, returned, rr_owed>>

\* mutant of LASTargetFlow: the first flow with queued packets, whatever its
\* service received
LASFirstActiveFlow(fqs, received) ==
    LET active == {i \in DOMAIN fqs : fqs[i].v # <<>>} IN
    IF active = {} THEN None
    ELSE Some(fqs[CHOOSE i \in active : \A j \in active : i <= j].k)

\* the loop over flow_queues.items(): the first flow, in insertion order, with
\* queued packets and the least service received (None if there is none)
LASTargetFlow(fqs, received) ==
    LET active == {i \in DOMAIN fqs : fqs[i].v # <<>>} IN
    IF active = {} THEN None
    ELSE LET i == CHOOSE i \in active :
                     /\ \A j \in active : Get(received, fqs[i].k) <= Get(received, fqs[j].k)
                     /\ \A j \in active :
                            j < i => Get(received, fqs[i].k) < Get(received, fqs[j].k)
         IN  Some(fqs[i].k)

LASProcess ==
    LET target_flow == LASTargetFlow(flow_queues, flow_service_received) IN
    /\ IF IsNone(target_flow)
       THEN /\ returned' = None
            /\ UNCHANGED <<flow_queues, flow_service_received, current_time,
                           processed_packets>>
       ELSE LET f == Val(target_flow)
                head == Head(Get(flow_queues, f))
                packet == Serviced(head, current_time)
            IN  /\ flow_queues' = Put(flow_queues, f, Tail(Get(flow_queues, f)))
                /\ flow_service_received' =
                       Put(flow_service_received, f,
                           Get(flow_service_received, f) + head.service_time)
                /\ current_time' = current_time + packet.service_time
                /\ processed_packets' = Append(processed_packets, packet)
                /\ returned' = Some(packet)
    /\ raised' = ""
    /\ UNCHANGED <<fixed_vars, dropped_packets, queue, heap, queues,
                   current_queue_index, virtual_time, flow_finish_times, rr_owed>>

----------------------------------------------------------------------------
(* The operations of a discipline, dispatched on its class *)

add_packet(packet) ==
    CASE name = FCFS -> FCFSAdd(packet)
      [] name = PQ -> PQAdd(packet)
      [] name = RR -> RRAdd(packet)
      [] name = FQ -> FQAdd(packet)
      [] name = LAS -> LASAdd(packet)

process_next ==
    CASE name = FCFS -> FCFSProcess
      [] name = PQ -> PQProcess
      [] name = RR -> RRProcess
      [] name = FQ -> FQProcess
      [] name = LAS -> LASProcess

is_empty ==
    CASE name = FCFS -> FCFSIsEmpty
      [] name = PQ -> PQIsEmpty
      [] name = RR -> RRIsEmpty
      [] name = FQ -> FlowsIsEmpty
      [] name = LAS -> FlowsIsEmpty

\* get_queue_size(): FCFSQueue, FairQueue and LASQueue override it;
\* PriorityQueue and RoundRobinQueue inherit the base method, which raises
get_queue_size ==
    CASE name = FCFS -> [raised |-> "", value |-> Len(queue)]
      [] name = FQ -> [raised |-> "", value |-> SumLen(flow_queues)]
      [] name = LAS -> [raised |-> "", value |-> SumLen(flow_queues)]
      [] OTHER -> [raised |-> "NotImplementedError", value |-> 0]

----------------------------------------------------------------------------
(* The numbers of get_metrics.  Python computes them in binary floating    *)
(* point: IEEE 754 double precision, a significand of 53 bits, every       *)
(* result rounded to the nearest double, a tie to the one with an even     *)
(* significand.  A float x is held as the record [neg, m, e] with |x| =     *)
(* m * 2^e, where m is an odd whole number below 2^53, or m = 0 and e = 0,  *)
(* and neg its sign bit (0.0 and -0.0 differ in it): two floats are the    *)
(* same double exactly when their records are equal.  m does not           *)
(* fit an integer of TLC, so it is held in limbs of LimbBits bits, least   *)
(* significant first, without zero limbs at the top (0 is <<>>).  The      *)
(* numbers of a run are far from the largest and the smallest double: no   *)
(* result overflows or is subnormal.                                       *)

LimbBits == 15
LimbBase == 2^LimbBits
MantissaBits == 53

Min(a, b) == IF a <= b THEN a ELSE b
Max(a, b) == IF a >= b THEN a ELSE b

\* the whole number n >= 0 in limbs
RECURSIVE BigOf(_)
BigOf(n) == IF n = 0 THEN <<>> ELSE <<n % LimbBase>> \o BigOf(n \div LimbBase)

\* limb i of x, 0 above its top
Limb(x, i) == IF i <= Len(x) THEN x[i] ELSE 0

\* x without zero limbs at the top
RECURSIVE BigTrim(_)
BigTrim(x) ==
    IF x # <<>> /\ x[Len(x)] = 0 THEN BigTrim(SubSeq(x, 1, Len(x) - 1)) ELSE x

\* x + y
RECURSIVE BigAddFrom(_, _, _, _)
BigAddFrom(x, y, i, carry) ==
    IF i > Len(x) /\ i > Len(y)
    THEN IF carry = 0 THEN <<>> ELSE <<carry>>
    ELSE LET t == Limb(x, i) + Limb(y, i) + carry
         IN  <<t % LimbBase>> \o BigAddFrom(x, y, i + 1, t \div LimbBase)

BigAdd(x, y) == BigAddFrom(x, y, 1, 0)

\* x - y, for x >= y
RECURSIVE BigSubFrom(_, _, _, _)
BigSubFrom(x, y, i, borrow) ==
    IF i > Len(x) THEN <<>>
    ELSE LET t == x[i] - Limb(y, i) - borrow
         IN  IF t < 0 THEN <<t + LimbBase>> \o BigSubFrom(x, y, i + 1, 1)
             ELSE <<t>> \o BigSubFrom(x, y, i + 1, 0)

BigSub(x, y) == BigTrim(BigSubFrom(x, y, 1, 0))

\* -1, 0 or 1 as x < y, x = y or x > y
RECURSIVE BigCmpFrom(_, _, _)
BigCmpFrom(x, y, i) ==
    IF i = 0 THEN 0
    ELSE IF x[i] < y[i] THEN -1
    ELSE IF x[i] > y[i] THEN 1
    ELSE BigCmpFrom(x, y, i - 1)

BigCmp(x, y) ==
    IF Len(x) < Len(y) THEN -1
    ELSE IF Len(x) > Len(y) THEN 1
    ELSE BigCmpFrom(x, y, Len(x))

\* x * k, for 0 <= k <= LimbBase
RECURSIVE BigMulLimbFrom(_, _, _, _)
BigMulLimbFrom(x, k, i, carry) ==
    IF i > Len(x)
    THEN IF carry = 0 THEN <<>> ELSE <<carry>>
    ELSE LET t == x[i] * k + carry
         IN  <<t % LimbBase>> \o BigMulLimbFrom(x, k, i + 1, t \div LimbBase)

BigMulLimb(x, k) == IF k = 0 THEN <<>> ELSE BigMulLimbFrom(x, k, 1, 0)

\* x * 2^s: the limbs move up s \div LimbBits places, and each takes the
\* low bits of its own limb and the high bits of the limb below
BigShl(x, s) ==
    LET up == s \div LimbBits
        d == 2^(s % LimbBits)
        moved == [i \in 1..(Len(x) + 1) |->
                     ((Limb(x, i) * d) % LimbBase)
                         + (IF i = 1 THEN 0 ELSE (x[i - 1] * d) \div LimbBase)]
    IN  IF x = <<>> THEN <<>> ELSE [i \in 1..up |-> 0] \o BigTrim(moved)

\* x * y
RECURSIVE BigMulFrom(_, _, _)
BigMulFrom(x, y, i) ==
    IF i > Len(y) THEN <<>>
    ELSE BigAdd([j \in 1..(i - 1) |-> 0] \o BigMulLimb(x, y[i]),
                BigMulFrom(x, y, i + 1))

BigMul(x, y) == BigMulFrom(x, y, 1)

\* the number of bits of n: 0 for 0, 1 for 1, 2 for 2 and 3
RECURSIVE IntBitLen(_)
IntBitLen(n) == IF n = 0 THEN 0 ELSE 1 + IntBitLen(n \div 2)

BigBitLen(x) ==
    IF x = <<>> THEN 0 ELSE (Len(x) - 1) * LimbBits + IntBitLen(x[Len(x)])

\* the digit floor(r / b) and the rest r - b * digit, for r < b * LimbBase
\* and b with the top bit of its top limb set: the quotient of their top
\* limbs is the digit or up to two more, and is lowered until b * digit <= r
RECURSIVE BigDigitFrom(_, _, _)
BigDigitFrom(r, b, guess) ==
    LET product == BigMulLimb(b, guess)
    IN  IF BigCmp(product, r) > 0 THEN BigDigitFrom(r, b, guess - 1)
        ELSE [digit |-> guess, rest |-> BigSub(r, product)]

BigDigit(r, b) ==
    LET n == Len(b)
        guess == (Limb(r, n + 1) * LimbBase + Limb(r, n)) \div b[n]
    IN  BigDigitFrom(r, b, Min(guess, LimbBase - 1))

\* long division of the limbs i, ..., 1 of a by b, r being what the limbs
\* above them left
RECURSIVE BigDivModFrom(_, _, _, _)
BigDivModFrom(a, b, i, r) ==
    IF i = 0 THEN [q |-> <<>>, r |-> r]
    ELSE LET step == BigDigit(BigTrim(<<a[i]>> \o r), b)
             rest == BigDivModFrom(a, b, i - 1, step.rest)
         IN  [q |-> Append(rest.q, step.digit), r |-> rest.r]

\* q = floor(a / b), and whether the division is exact, for b > 0: a and b
\* are first scaled by 2^s so that the top bit of b's top limb is set; the
\* top limbs of a, one fewer than b has, are below b and make the first rest
BigDivMod(a, b) ==
    LET s == LimbBits - IntBitLen(b[Len(b)])
        scaled == BigShl(a, s)
        i == Max(0, Len(scaled) - Len(b) + 1)
        qr == BigDivModFrom(scaled, BigShl(b, s), i, SubSeq(scaled, i + 1, Len(scaled)))
    IN  [q |-> BigTrim(qr.q), exact |-> qr.r = <<>>]

\* floor(x / 2^s): the limbs move down s \div LimbBits places, and each
\* takes the high bits of its own limb and the low bits of the limb above
BigShr(x, s) ==
    LET y == SubSeq(x, s \div LimbBits + 1, Len(x))
        d == 2^(s % LimbBits)
    IN  BigTrim([i \in 1..Len(y) |->
                    (y[i] \div d) + ((Limb(y, i + 1) % d) * (LimbBase \div d))])

\* bit s of x is set (bit 0 is the lowest)
BigBit(x, s) == (Limb(x, s \div LimbBits + 1) \div 2^(s % LimbBits)) % 2 = 1

\* the s lowest bits of x are all zero
BigLowZero(x, s) ==
    /\ \A i \in 1..(s \div LimbBits) : Limb(x, i) = 0
    /\ Limb(x, s \div LimbBits + 1) % 2^(s % LimbBits) = 0

\* the number of zero bits at the low end of x > 0
BigTrailingZeros(x) ==
    LET low == CHOOSE i \in 1..Len(x) : x[i] # 0 /\ \A j \in 1..(i - 1) : x[j] = 0
        bits == CHOOSE z \in 0..(LimbBits - 1) :
                    x[low] % 2^z = 0 /\ x[low] % 2^(z + 1) # 0
    IN  (low - 1) * LimbBits + bits

\* the float of sign `neg` and size n * 2^e, for n of at most MantissaBits
\* bits
Float(neg, n, e) ==
    IF n = <<>> THEN [neg |-> neg, m |-> <<>>, e |-> 0]
    ELSE LET z == BigTrailingZeros(n)
         IN  [neg |-> neg, m |-> BigShr(n, z), e |-> e + z]

\* the float of sign `neg` nearest in size to n * 2^e, or, when `inexact`,
\* nearest to a number above n * 2^e and below (n + 1) * 2^e; an inexact n
\* has at least MantissaBits + 2 bits.  Of a long n the s bits beyond the 53
\* kept are dropped, and the kept ones go one up when the dropped part is
\* above half a unit of the last kept bit, or is the half and the last kept
\* bit is odd
FRound(neg, n, e, inexact) ==
    LET s == BigBitLen(n) - MantissaBits
    IN  IF s <= 0 THEN Float(neg, n, e)
        ELSE LET kept == BigShr(n, s)
                 half == BigBit(n, s - 1)
                 above == ~BigLowZero(n, s - 1) \/ inexact
                 up == half /\ (above \/ BigBit(kept, 0))
             IN  Float(neg, IF up THEN BigAdd(kept, <<1>>) ELSE kept, e + s)

\* float(n) of a whole number n
FromInt(n) == FRound(n < 0, BigOf(IF n < 0 THEN -n ELSE n), 0, FALSE)

Zero == FromInt(0)
One == FromInt(1)

\* -x
FNeg(x) == [x EXCEPT !.neg = ~x.neg]

\* the float nearest to the sum of two numbers that are not zero, the first
\* of sign neg_a and size a * 2^ea, the second of sign neg_b and size
\* b * 2^eb: the sum is formed exactly and rounded once; a sum that is zero
\* is 0.0
FSumRound(neg_a, a, ea, neg_b, b, eb) ==
    LET e == Min(ea, eb)
        x == BigShl(a, ea - e)
        y == BigShl(b, eb - e)
        c == BigCmp(x, y)
    IN  IF neg_a = neg_b THEN FRound(neg_a, BigAdd(x, y), e, FALSE)
        ELSE IF c = 0 THEN Zero
        ELSE IF c > 0 THEN FRound(neg_a, BigSub(x, y), e, FALSE)
        ELSE FRound(neg_b, BigSub(y, x), e, FALSE)

\* x + y, x - y, x * y, x / y (y # 0) and x <= y of floats.  A zero has a
\* sign: -0.0 + -0.0 is -0.0 and every other sum that is zero is 0.0, the
\* sign of a product or quotient is that of its operands also when it is
\* zero, and -0.0 <= 0.0 <= -0.0.  A quotient by a power of two, or of two
\* equal significands, is exact and needs no rounding
FAdd(x, y) ==
    IF x.m = <<>> /\ y.m = <<>> THEN [x EXCEPT !.neg = x.neg /\ y.neg]
    ELSE IF x.m = <<>> THEN y
    ELSE IF y.m = <<>> THEN x
    ELSE FSumRound(x.neg, x.m, x.e, y.neg, y.m, y.e)

FSub(x, y) == FAdd(x, FNeg(y))

FMul(x, y) ==
    IF x.m = <<>> \/ y.m = <<>> THEN [neg |-> x.neg # y.neg, m |-> <<>>, e |-> 0]
    ELSE FRound(x.neg # y.neg, BigMul(x.m, y.m), x.e + y.e, FALSE)

FDiv(x, y) ==
    IF y.m # <<>> /\ x.m = <<>> THEN [neg |-> x.neg # y.neg, m |-> <<>>, e |-> 0]
    ELSE IF y.m = <<1>> THEN [neg |-> x.neg # y.neg, m |-> x.m, e |-> x.e - y.e]
    ELSE IF x.m = y.m THEN [neg |-> x.neg # y.neg, m |-> <<1>>, e |-> x.e - y.e]
    ELSE LET k == Max(0, MantissaBits + 2 + BigBitLen(y.m) - BigBitLen(x.m))
             qr == BigDivMod(BigShl(x.m, k), y.m)
         IN  FRound(x.neg # y.neg, qr.q, x.e - y.e - k, ~qr.exact)

FLe(x, y) ==
    IF x.m = <<>> /\ y.m = <<>> THEN TRUE
    ELSE IF x.m = <<>> THEN ~y.neg
    ELSE IF y.m = <<>> THEN x.neg
    ELSE IF x.neg # y.neg THEN x.neg
    ELSE LET e == Min(x.e, y.e)
             c == BigCmp(BigShl(x.m, x.e - e), BigShl(y.m, y.e - e))
         IN  IF x.neg THEN c >= 0 ELSE c <= 0

\* fma(x, y, z) of the C library: x * y + z formed exactly and rounded once
FMA(x, y, z) ==
    IF x.m = <<>> \/ y.m = <<>> THEN FAdd(FMul(x, y), z)
    ELSE IF z.m = <<>> THEN FMul(x, y)
    ELSE FSumRound(x.neg # y.neg, BigMul(x.m, y.m), x.e + y.e, z.neg, z.m, z.e)

----------------------------------------------------------------------------
(* r ** 2 of get_metrics: float_pow of CPython calls pow(x, 2.0) of the C   *)
(* library, which is not the rounded product x * x: glibc computes          *)
(* exp(y * log(x)) in doubles with tables, and returns the neighbouring     *)
(* double for about one x in a thousand (33 / 41 is one).  The operators    *)
(* below follow e_pow.c of glibc 2.36 step by step, in the order and with   *)
(* the fused multiply-adds of the x86-64 build that runs on a processor     *)
(* with FMA; the tables are those of the library (__pow_log_data and        *)
(* __exp_data).                                                             *)

ExponentBits == 11
ExponentBias == 1023
WordBits == 64
PowLogTableBits == 7
ExpTableBits == 7

\* the double of sign `neg` and size m * 2^e, m odd
D(neg, m, e) == [neg |-> neg, m |-> m, e |-> e]

\* the lowest s bits of x
BigLow(x, s) ==
    BigTrim([i \in 1..Min(Len(x), s \div LimbBits + 1) |->
                IF i <= s \div LimbBits THEN x[i] ELSE x[i] % 2^(s % LimbBits)])

\* the whole number x, small enough for an integer
RECURSIVE BigToInt(_)
BigToInt(x) == IF x = <<>> THEN 0 ELSE Head(x) + LimbBase * BigToInt(Tail(x))

\* asuint64(x): the 64 bits of the double x, as a whole number: the sign
\* bit, 11 bits of exponent above the bias and the 52 bits of the
\* significand below its top bit
AsUint64(x) ==
    LET s == MantissaBits - BigBitLen(x.m)
        biased == x.e - s + MantissaBits - 1 + ExponentBias
        sign == IF x.neg THEN 2^ExponentBits ELSE 0
    IN  IF x.m = <<>> THEN BigShl(BigOf(sign), MantissaBits - 1)
        ELSE BigAdd(BigShl(BigOf(sign + biased - 1), MantissaBits - 1), BigShl(x.m, s))

\* asdouble(u): the double of the 64 bits u
AsDouble(u) ==
    LET top == BigToInt(BigShr(u, MantissaBits - 1))
        biased == top % 2^ExponentBits
        significand == BigAdd(BigLow(u, MantissaBits - 1), BigShl(<<1>>, MantissaBits - 1))
    IN  IF biased = 0 THEN [neg |-> top >= 2^ExponentBits, m |-> <<>>, e |-> 0]
        ELSE Float(top >= 2^ExponentBits, significand,
                   biased - ExponentBias - (MantissaBits - 1))

PowOff == <<0, 0, 21844, 32564, 3>>

PowLn2hi == D(FALSE, <<24391, 4287, 2839>>, -42)
PowLn2lo == D(FALSE, <<30323, 29304, 15573, 15>>, -93)

PowLogPoly ==
    << D(TRUE, <<1>>, -1),
       D(TRUE, <<10923, 21845, 10922, 5>>, -48),
       D(FALSE, <<3, 0, 0, 64>>, -52),
       D(FALSE, <<10919, 6489, 13107, 102>>, -52),
       D(TRUE, <<21053, 21801, 10922, 85>>, -52),
       D(TRUE, <<17897, 13968, 9582, 146>>, -52),
       D(FALSE, <<16323, 5708, 174, 128>>, -52) >>

\* entry i (from 0) of the table is at place i + 1: invc, logc, logctail
PowLogTab ==
    << << D(FALSE, <<181>>, -7),
          D(TRUE, <<22329, 8380, 2838>>, -43),
          D(FALSE, <<28333, 4256, 21921, 1>>, -93) >>,
       << D(FALSE, <<45>>, -5),
          D(TRUE, <<27393, 28527, 2792>>, -43),
          D(TRUE, <<1977, 3470, 5281, 7>>, -93) >>,
       << D(FALSE, <<179>>, -7),
          D(TRUE, <<26795, 7621, 2747>>, -43),
          D(TRUE, <<20589, 11116, 2707, 155>>, -97) >>,
       << D(FALSE, <<89>>, -6),
          D(TRUE, <<26047, 11105, 2701>>, -43),
          D(TRUE, <<26581, 15712, 5010, 180>>, -101) >>,
       << D(FALSE, <<177>>, -7),
          D(TRUE, <<12015, 6117, 2655>>, -43),
          D(TRUE, <<18935, 6450, 877, 5>>, -94) >>,
       << D(FALSE, <<11>>, -3),
          D(TRUE, <<4323, 6332, 652>>, -41),
          D(FALSE, <<8499, 9254, 22575, 39>>, -96) >>,
       << D(FALSE, <<175>>, -7),
          D(TRUE, <<20693, 3105, 2562>>, -43),
          D(FALSE, <<1437, 28034, 1511, 113>>, -101) >>,
       << D(FALSE, <<87>>, -6),
          D(TRUE, <<11561, 4885, 2515>>, -43),
          D(FALSE, <<3235, 26725, 5688, 4>>, -92) >>,
       << D(FALSE, <<173>>, -7),
          D(TRUE, <<13617, 8054, 154>>, -39),
          D(FALSE, <<16457, 21701, 12955, 85>>, -96) >>,
       << D(FALSE, <<43>>, -5),
          D(TRUE, <<22281, 3627, 605>>, -41),
          D(FALSE, <<25979, 9837, 15759, 22>>, -94) >>,
       << D(FALSE, <<171>>, -7),
          D(TRUE, <<31697, 22148, 2372>>, -43),
          D(FALSE, <<12351, 28063, 10322, 174>>, -98) >>,
       << D(FALSE, <<171>>, -7),
          D(TRUE, <<31697, 22148, 2372>>, -43),
          D(FALSE, <<12351, 28063, 10322, 174>>, -98) >>,
       << D(FALSE, <<85>>, -6),
          D(TRUE, <<31215, 20606, 2324>>, -43),
          D(TRUE, <<27963, 10323, 13384, 89>>, -97) >>,
       << D(FALSE, <<169>>, -7),
          D(TRUE, <<11571, 9776, 2276>>, -43),
          D(TRUE, <<21761, 13427, 12220, 63>>, -96) >>,
       << D(FALSE, <<21>>, -4),
          D(TRUE, <<30069, 22314, 2227>>, -43),
          D(FALSE, <<10895, 18032, 18417, 15>>, -94) >>,
       << D(FALSE, <<167>>, -7),
          D(TRUE, <<13769, 25342, 2178>>, -43),
          D(TRUE, <<11571, 32005, 20873, 90>>, -96) >>,
       << D(FALSE, <<83>>, -6),
          D(TRUE, <<10041, 25756, 1064>>, -42),
          D(TRUE, <<391, 32500, 22492, 113>>, -98) >>,
       << D(FALSE, <<165>>, -7),
          D(TRUE, <<19277, 1202, 1040>>, -42),
          D(TRUE, <<11647, 15848, 23266, 129>>, -100) >>,
       << D(FALSE, <<165>>, -7),
          D(TRUE, <<19277, 1202, 1040>>, -42),
          D(TRUE, <<11647, 15848, 23266, 129>>, -100) >>,
       << D(FALSE, <<41>>, -5),
          D(TRUE, <<13689, 18627, 507>>, -41),
          D(FALSE, <<15495, 22322, 23722, 234>>, -99) >>,
       << D(FALSE, <<163>>, -7),
          D(TRUE, <<24291, 2780, 990>>, -42),
          D(FALSE, <<11209, 20035, 9911, 54>>, -95) >>,
       << D(FALSE, <<81>>, -6),
          D(TRUE, <<25263, 24813, 1929>>, -43),
          D(TRUE, <<32753, 27271, 19411, 11>>, -94) >>,
       << D(FALSE, <<161>>, -7),
          D(TRUE, <<11583, 24843, 469>>, -41),
          D(FALSE, <<26651, 30612, 27206, 141>>, -97) >>,
       << D(FALSE, <<5>>, -2),
          D(TRUE, <<15573, 32636, 913>>, -42),
          D(FALSE, <<24845, 13391, 31055, 46>>, -95) >>,
       << D(FALSE, <<5>>, -2),
          D(TRUE, <<15573, 32636, 913>>, -42),
          D(FALSE, <<24845, 13391, 31055, 46>>, -95) >>,
       << D(FALSE, <<159>>, -7),
          D(TRUE, <<17113, 20686, 1776>>, -43),
          D(FALSE, <<14223, 25367, 15040, 202>>, -98) >>,
       << D(FALSE, <<79>>, -6),
          D(TRUE, <<14851, 7754, 431>>, -41),
          D(FALSE, <<18483, 16333, 7366, 105>>, -103) >>,
       << D(FALSE, <<157>>, -7),
          D(TRUE, <<32299, 30595, 1672>>, -43),
          D(TRUE, <<24821, 23622, 6345, 86>>, -96) >>,
       << D(FALSE, <<157>>, -7),
          D(TRUE, <<32299, 30595, 1672>>, -43),
          D(TRUE, <<24821, 23622, 6345, 86>>, -96) >>,
       << D(FALSE, <<39>>, -5),
          D(TRUE, <<20293, 19283, 1620>>, -43),
          D(TRUE, <<21731, 2435, 18276, 214>>, -97) >>,
       << D(FALSE, <<155>>, -7),
          D(TRUE, <<21005, 29708, 1567>>, -43),
          D(FALSE, <<31241, 32695, 30461, 221>>, -97) >>,
       << D(FALSE, <<77>>, -6),
          D(TRUE, <<4231, 14480, 757>>, -42),
          D(FALSE, <<26955, 7316, 28104, 27>>, -94) >>,
       << D(FALSE, <<77>>, -6),
          D(TRUE, <<4231, 14480, 757>>, -42),
          D(FALSE, <<26955, 7316, 28104, 27>>, -94) >>,
       << D(FALSE, <<153>>, -7),
          D(TRUE, <<29085, 16892, 1461>>, -43),
          D(TRUE, <<28979, 9138, 18645, 67>>, -97) >>,
       << D(FALSE, <<19>>, -4),
          D(TRUE, <<2681, 26126, 1407>>, -43),
          D(TRUE, <<20537, 15904, 30990, 244>>, -98) >>,
       << D(FALSE, <<19>>, -4),
          D(TRUE, <<2681, 26126, 1407>>, -43),
          D(TRUE, <<20537, 15904, 30990, 244>>, -98) >>,
       << D(FALSE, <<151>>, -7),
          D(TRUE, <<14875, 23740, 1353>>, -43),
          D(TRUE, <<23439, 8206, 31278, 134>>, -97) >>,
       << D(FALSE, <<75>>, -6),
          D(TRUE, <<22935, 13485, 162>>, -40),
          D(FALSE, <<24079, 12442, 3265, 46>>, -96) >>,
       << D(FALSE, <<75>>, -6),
          D(TRUE, <<22935, 13485, 162>>, -40),
          D(FALSE, <<24079, 12442, 3265, 46>>, -96) >>,
       << D(FALSE, <<149>>, -7),
          D(TRUE, <<489, 16260, 1244>>, -43),
          D(FALSE, <<10781, 19751, 28940, 69>>, -99) >>,
       << D(FALSE, <<37>>, -5),
          D(TRUE, <<511, 10847, 1189>>, -43),
          D(TRUE, <<14465, 1500, 18072, 20>>, -94) >>,
       << D(FALSE, <<147>>, -7),
          D(TRUE, <<10619, 29357, 566>>, -42),
          D(TRUE, <<20939, 6161, 328, 122>>, -96) >>,
       << D(FALSE, <<147>>, -7),
          D(TRUE, <<10619, 29357, 566>>, -42),
          D(TRUE, <<20939, 6161, 328, 122>>, -96) >>,
       << D(FALSE, <<73>>, -6),
          D(TRUE, <<19721, 28623, 1077>>, -43),
          D(FALSE, <<5885, 17524, 27030, 52>>, -97) >>,
       << D(FALSE, <<73>>, -6),
          D(TRUE, <<19721, 28623, 1077>>, -43),
          D(FALSE, <<5885, 17524, 27030, 52>>, -97) >>,
       << D(FALSE, <<145>>, -7),
          D(TRUE, <<3807, 18707, 1021>>, -43),
          D(TRUE, <<6649, 23715, 27304, 85>>, -96) >>,
       << D(FALSE, <<9>>, -3),
          D(TRUE, <<28203, 19982, 120>>, -40),
          D(FALSE, <<15, 5496, 13356, 52>>, -95) >>,
       << D(FALSE, <<9>>, -3),
          D(TRUE, <<28203, 19982, 120>>, -40),
          D(FALSE, <<15, 5496, 13356, 52>>, -95) >>,
       << D(FALSE, <<143>>, -7),
          D(TRUE, <<15727, 29348, 453>>, -42),
          D(TRUE, <<24323, 22623, 6318, 116>>, -97) >>,
       << D(FALSE, <<71>>, -6),
          D(TRUE, <<21079, 9939, 850>>, -43),
          D(FALSE, <<30041, 31254, 7322, 21>>, -94) >>,
       << D(FALSE, <<71>>, -6),
          D(TRUE, <<21079, 9939, 850>>, -43),
          D(FALSE, <<30041, 31254, 7322, 21>>, -94) >>,
       << D(FALSE, <<141>>, -7),
          D(TRUE, <<12685, 13405, 792>>, -43),
          D(FALSE, <<27341, 21323, 15892, 19>>, -95) >>,
       << D(FALSE, <<141>>, -7),
          D(TRUE, <<12685, 13405, 792>>, -43),
          D(FALSE, <<27341, 21323, 15892, 19>>, -95) >>,
       << D(FALSE, <<35>>, -5),
          D(TRUE, <<22315, 3368, 734>>, -43),
          D(TRUE, <<14829, 18739, 11887, 90>>, -96) >>,
       << D(FALSE, <<139>>, -7),
          D(TRUE, <<30769, 12403, 675>>, -43),
          D(FALSE, <<24151, 17292, 2413, 248>>, -98) >>,
       << D(FALSE, <<139>>, -7),
          D(TRUE, <<30769, 12403, 675>>, -43),
          D(FALSE, <<24151, 17292, 2413, 248>>, -98) >>,
       << D(FALSE, <<69>>, -6),
          D(TRUE, <<12511, 7545, 616>>, -43),
          D(FALSE, <<5087, 6642, 31595, 226>>, -97) >>,
       << D(FALSE, <<69>>, -6),
          D(TRUE, <<12511, 7545, 616>>, -43),
          D(FALSE, <<5087, 6642, 31595, 226>>, -97) >>,
       << D(FALSE, <<137>>, -7),
          D(TRUE, <<23879, 5339, 139>>, -41),
          D(FALSE, <<8969, 27935, 29049, 163>>, -98) >>,
       << D(FALSE, <<17>>, -4),
          D(TRUE, <<35, 10435, 248>>, -42),
          D(FALSE, <<3729, 1645, 26234, 234>>, -97) >>,
       << D(FALSE, <<17>>, -4),
          D(TRUE, <<35, 10435, 248>>, -42),
          D(FALSE, <<3729, 1645, 26234, 234>>, -97) >>,
       << D(FALSE, <<135>>, -7),
          D(TRUE, <<25139, 2933, 218>>, -42),
          D(FALSE, <<7187, 29419, 634, 57>>, -96) >>,
       << D(FALSE, <<135>>, -7),
          D(TRUE, <<25139, 2933, 218>>, -42),
          D(FALSE, <<7187, 29419, 634, 57>>, -96) >>,
       << D(FALSE, <<67>>, -6),
          D(TRUE, <<22731, 8903, 375>>, -43),
          D(TRUE, <<20727, 13554, 30860, 115>>, -96) >>,
       << D(FALSE, <<67>>, -6),
          D(TRUE, <<22731, 8903, 375>>, -43),
          D(TRUE, <<20727, 13554, 30860, 115>>, -96) >>,
       << D(FALSE, <<133>>, -7),
          D(TRUE, <<26619, 29757, 313>>, -43),
          D(FALSE, <<32597, 29990, 1391, 84>>, -99) >>,
       << D(FALSE, <<133>>, -7),
          D(TRUE, <<26619, 29757, 313>>, -43),
          D(FALSE, <<32597, 29990, 1391, 84>>, -99) >>,
       << D(FALSE, <<33>>, -5),
          D(TRUE, <<25039, 24742, 15>>, -39),
          D(TRUE, <<633, 15935, 38, 51>>, -95) >>,
       << D(FALSE, <<33>>, -5),
          D(TRUE, <<25039, 24742, 15>>, -39),
          D(TRUE, <<633, 15935, 38, 51>>, -95) >>,
       << D(FALSE, <<131>>, -7),
          D(TRUE, <<4011, 25708, 189>>, -43),
          D(TRUE, <<9785, 10229, 13650, 196>>, -97) >>,
       << D(FALSE, <<65>>, -6),
          D(TRUE, <<11327, 24660, 31>>, -41),
          D(TRUE, <<27047, 31593, 7804, 62>>, -100) >>,
       << D(FALSE, <<65>>, -6),
          D(TRUE, <<11327, 24660, 31>>, -41),
          D(TRUE, <<27047, 31593, 7804, 62>>, -100) >>,
       << D(FALSE, <<129>>, -7),
          D(TRUE, <<9905, 31749, 7>>, -40),
          D(TRUE, <<4153, 1773, 25151, 51>>, -96) >>,
       << D(FALSE, <<129>>, -7),
          D(TRUE, <<9905, 31749, 7>>, -40),
          D(TRUE, <<4153, 1773, 25151, 51>>, -96) >>,
       << D(FALSE, <<1>>, 0),
          D(FALSE, <<>>, 0),
          D(FALSE, <<>>, 0) >>,
       << D(FALSE, <<1>>, 0),
          D(FALSE, <<>>, 0),
          D(FALSE, <<>>, 0) >>,
       << D(FALSE, <<127>>, -7),
          D(FALSE, <<30089, 8234, 64>>, -43),
          D(TRUE, <<9597, 26215, 25525, 16>>, -95) >>,
       << D(FALSE, <<63>>, -6),
          D(FALSE, <<12583, 345, 129>>, -43),
          D(TRUE, <<31721, 1762, 14518, 79>>, -96) >>,
       << D(FALSE, <<125>>, -7),
          D(FALSE, <<10441, 4682, 97>>, -42),
          D(TRUE, <<781, 6445, 8378, 53>>, -95) >>,
       << D(FALSE, <<31>>, -5),
          D(FALSE, <<10141, 2796, 260>>, -43),
          D(FALSE, <<22355, 14819, 18177, 136>>, -99) >>,
       << D(FALSE, <<123>>, -7),
          D(FALSE, <<27159, 26286, 40>>, -40),
          D(TRUE, <<16293, 23919, 2873, 28>>, -94) >>,
       << D(FALSE, <<61>>, -6),
          D(FALSE, <<21119, 9552, 393>>, -43),
          D(TRUE, <<9853, 8372, 26199, 203>>, -98) >>,
       << D(FALSE, <<121>>, -7),
          D(FALSE, <<14199, 23454, 460>>, -43),
          D(TRUE, <<10247, 4016, 9161, 211>>, -98) >>,
       << D(FALSE, <<241>>, -8),
          D(FALSE, <<27, 20878, 494>>, -43),
          D(TRUE, <<15227, 8082, 17657, 240>>, -99) >>,
       << D(FALSE, <<239>>, -8),
          D(FALSE, <<2611, 29629, 562>>, -43),
          D(TRUE, <<7835, 11291, 18805, 169>>, -97) >>,
       << D(FALSE, <<237>>, -8),
          D(FALSE, <<16015, 24410, 631>>, -43),
          D(FALSE, <<20183, 19382, 8570, 230>>, -97) >>,
       << D(FALSE, <<235>>, -8),
          D(FALSE, <<27837, 5540, 701>>, -43),
          D(TRUE, <<3727, 15453, 21004, 113>>, -96) >>,
       << D(FALSE, <<117>>, -7),
          D(FALSE, <<11179, 1688, 368>>, -42),
          D(FALSE, <<30361, 10653, 15643, 112>>, -100) >>,
       << D(FALSE, <<29>>, -5),
          D(FALSE, <<30053, 6898, 403>>, -42),
          D(FALSE, <<9197, 15037, 8888, 76>>, -96) >>,
       << D(FALSE, <<115>>, -7),
          D(FALSE, <<28011, 11400, 877>>, -43),
          D(TRUE, <<26853, 22510, 16896, 156>>, -98) >>,
       << D(FALSE, <<229>>, -8),
          D(FALSE, <<1777, 17088, 456>>, -42),
          D(FALSE, <<11475, 3253, 6983, 178>>, -97) >>,
       << D(FALSE, <<227>>, -8),
          D(FALSE, <<6225, 29592, 984>>, -43),
          D(TRUE, <<12847, 2814, 14349, 7>>, -92) >>,
       << D(FALSE, <<113>>, -7),
          D(FALSE, <<20191, 2323, 1021>>, -43),
          D(TRUE, <<2813, 8002, 21337, 169>>, -97) >>,
       << D(FALSE, <<7>>, -3),
          D(FALSE, <<4415, 30952, 546>>, -42),
          D(FALSE, <<1017, 20013, 24305, 71>>, -96) >>,
       << D(FALSE, <<223>>, -8),
          D(FALSE, <<25151, 17775, 1130>>, -43),
          D(FALSE, <<9805, 8732, 10126, 57>>, -95) >>,
       << D(FALSE, <<221>>, -8),
          D(FALSE, <<6413, 17796, 150>>, -40),
          D(FALSE, <<13473, 5891, 30131, 156>>, -99) >>,
       << D(FALSE, <<55>>, -6),
          D(FALSE, <<345, 16278, 1241>>, -43),
          D(FALSE, <<29321, 18070, 16032, 177>>, -103) >>,
       << D(FALSE, <<109>>, -7),
          D(FALSE, <<13115, 10160, 1316>>, -43),
          D(FALSE, <<14031, 21823, 16828, 21>>, -94) >>,
       << D(FALSE, <<217>>, -8),
          D(FALSE, <<18971, 31932, 1353>>, -43),
          D(FALSE, <<32199, 19154, 20387, 177>>, -97) >>,
       << D(FALSE, <<215>>, -8),
          D(FALSE, <<26817, 27095, 1429>>, -43),
          D(FALSE, <<1487, 19215, 26565, 25>>, -95) >>,
       << D(FALSE, <<107>>, -7),
          D(FALSE, <<14167, 593, 1468>>, -43),
          D(TRUE, <<8673, 19256, 17975, 168>>, -97) >>,
       << D(FALSE, <<213>>, -8),
          D(FALSE, <<21573, 12720, 1506>>, -43),
          D(TRUE, <<17157, 24866, 6209, 227>>, -98) >>,
       << D(FALSE, <<211>>, -8),
          D(FALSE, <<27449, 32095, 98>>, -39),
          D(TRUE, <<11473, 21970, 30034, 185>>, -99) >>,
       << D(FALSE, <<105>>, -7),
          D(FALSE, <<23799, 13493, 101>>, -39),
          D(FALSE, <<32623, 12609, 18593, 191>>, -99) >>,
       << D(FALSE, <<13>>, -4),
          D(FALSE, <<25687, 16083, 850>>, -42),
          D(TRUE, <<8553, 8364, 18701, 195>>, -97) >>,
       << D(FALSE, <<207>>, -8),
          D(FALSE, <<30141, 15114, 1740>>, -43),
          D(TRUE, <<28885, 20140, 27418, 112>>, -98) >>,
       << D(FALSE, <<103>>, -7),
          D(FALSE, <<16863, 2163, 890>>, -42),
          D(TRUE, <<2395, 22868, 6024, 117>>, -96) >>,
       << D(FALSE, <<205>>, -8),
          D(FALSE, <<28417, 32632, 1819>>, -43),
          D(TRUE, <<5609, 17814, 22757, 71>>, -99) >>,
       << D(FALSE, <<203>>, -8),
          D(FALSE, <<3401, 10166, 1900>>, -43),
          D(TRUE, <<12341, 28203, 31915, 215>>, -97) >>,
       << D(FALSE, <<101>>, -7),
          D(FALSE, <<32369, 25055, 1940>>, -43),
          D(FALSE, <<8003, 27656, 1161, 9>>, -99) >>,
       << D(FALSE, <<201>>, -8),
          D(FALSE, <<25821, 27483, 123>>, -39),
          D(TRUE, <<3601, 19319, 1109, 209>>, -103) >>,
       << D(FALSE, <<25>>, -5),
          D(FALSE, <<19259, 9101, 2022>>, -43),
          D(FALSE, <<19955, 6465, 29435, 13>>, -94) >>,
       << D(FALSE, <<99>>, -7),
          D(FALSE, <<2475, 19992, 2104>>, -43),
          D(FALSE, <<20113, 11738, 29548, 196>>, -100) >>,
       << D(FALSE, <<197>>, -8),
          D(FALSE, <<15115, 17110, 536>>, -41),
          D(FALSE, <<27369, 11385, 25132, 184>>, -97) >>,
       << D(FALSE, <<49>>, -6),
          D(FALSE, <<17661, 25504, 2187>>, -43),
          D(TRUE, <<31751, 12754, 8462, 56>>, -95) >>,
       << D(FALSE, <<195>>, -8),
          D(FALSE, <<30111, 22322, 2229>>, -43),
          D(FALSE, <<5761, 28490, 27447, 220>>, -97) >>,
       << D(FALSE, <<97>>, -7),
          D(FALSE, <<27469, 26200, 2271>>, -43),
          D(FALSE, <<15799, 8847, 7093, 229>>, -97) >>,
       << D(FALSE, <<193>>, -8),
          D(FALSE, <<8663, 4443, 2314>>, -43),
          D(FALSE, <<23925, 14918, 4029, 106>>, -98) >>,
       << D(FALSE, <<191>>, -8),
          D(FALSE, <<19913, 24079, 1199>>, -42),
          D(FALSE, <<317, 9512, 7418, 53>>, -95) >>,
       << D(FALSE, <<95>>, -7),
          D(FALSE, <<3739, 20254, 610>>, -41),
          D(TRUE, <<10135, 13512, 28989, 24>>, -94) >>,
       << D(FALSE, <<189>>, -8),
          D(FALSE, <<27617, 27886, 1242>>, -42),
          D(FALSE, <<12025, 27708, 14182, 17>>, -95) >>,
       << D(FALSE, <<47>>, -6),
          D(FALSE, <<29491, 19022, 1264>>, -42),
          D(FALSE, <<12119, 23299, 15188, 48>>, -96) >>,
       << D(FALSE, <<187>>, -8),
          D(FALSE, <<31421, 27912, 2572>>, -43),
          D(FALSE, <<24733, 22817, 4315, 199>>, -99) >>,
       << D(FALSE, <<93>>, -7),
          D(FALSE, <<20025, 25456, 2616>>, -43),
          D(TRUE, <<22133, 4815, 7992, 249>>, -97) >>,
       << D(FALSE, <<185>>, -8),
          D(FALSE, <<24947, 15379, 1330>>, -42),
          D(TRUE, <<13865, 3461, 8329, 60>>, -95) >>,
       << D(FALSE, <<23>>, -5),
          D(FALSE, <<14789, 10976, 676>>, -41),
          D(FALSE, <<18265, 713, 31170, 245>>, -97) >>,
       << D(FALSE, <<183>>, -8),
          D(FALSE, <<15501, 32490, 1374>>, -42),
          D(FALSE, <<16623, 23738, 14263, 253>>, -98) >>,
       << D(FALSE, <<91>>, -7),
          D(FALSE, <<31435, 23517, 698>>, -41),
          D(TRUE, <<6519, 1106, 2858, 52>>, -97) >> >>

ExpInvLn2N == D(FALSE, <<16767, 25899, 10894, 92>>, -44)
ExpShift == D(FALSE, <<3>>, 51)
ExpNegLn2hiN == D(TRUE, <<32637, 11842, 44>>, -43)
ExpNegLn2loN == D(TRUE, <<7581, 15518, 28469, 115>>, -98)

\* C2, C3, C4, C5
ExpPoly ==
    << D(FALSE, <<32189, 32767, 32767, 255>>, -54),
       D(FALSE, <<21775, 10922, 21845, 42>>, -53),
       D(FALSE, <<11153, 7726, 21847, 170>>, -57),
       D(FALSE, <<20503, 20297, 17477, 136>>, -59) >>

\* word i (from 0) of the table is at place i + 1
ExpTab ==
    << <<>>, <<0, 0, 0, 32640, 3>>,
       <<16238, 13585, 27964, 25817, 3>>, <<13109, 21494, 22774, 32639, 3>>,
       <<23645, 14769, 78, 25483, 11>>, <<97, 31983, 12904, 32639, 3>>,
       <<26321, 8462, 31208, 25730, 11>>, <<32645, 20700, 3159, 32639, 3>>,
       <<30227, 27343, 18760, 25702, 3>>, <<1396, 9771, 26307, 32638, 3>>,
       <<3834, 18419, 14848, 25694, 11>>, <<30430, 21435, 16812, 32638, 3>>,
       <<18529, 17357, 23865, 25351, 3>>, <<7112, 12523, 7444, 32638, 3>>,
       <<21401, 13927, 3985, 25733, 3>>, <<29571, 5517, 30971, 32637, 3>>,
       <<31597, 15110, 27289, 25788, 3>>, <<2319, 23027, 21857, 32637, 3>>,
       <<28668, 9723, 21610, 25717, 3>>, <<18423, 22244, 12872, 32637, 3>>,
       <<7377, 24671, 30965, 25077, 3>>, <<20898, 26023, 4016, 32637, 3>>,
       <<28171, 4896, 3282, 25424, 11>>, <<21275, 24573, 28058, 32636, 3>>,
       <<15630, 21599, 22856, 25770, 11>>, <<23377, 8228, 19463, 32636, 3>>,
       <<27221, 6301, 958, 25220, 11>>, <<12748, 216, 10999, 32636, 3>>,
       <<29718, 29611, 9358, 25742, 11>>, <<11744, 23890, 2666, 32636, 3>>,
       <<21935, 21176, 20367, 25606, 3>>, <<3665, 4427, 27235, 32635, 3>>,
       <<4936, 21835, 27735, 25600, 11>>, <<20859, 30970, 19168, 32635, 3>>,
       <<12861, 11196, 32705, 25720, 11>>, <<3562, 28953, 11236, 32635, 3>>,
       <<21439, 32294, 9776, 25692, 3>>, <<19317, 22239, 3439, 32635, 3>>,
       <<27430, 27683, 26225, 25782, 11>>, <<23764, 2056, 28546, 32634, 3>>,
       <<12128, 31860, 13276, 25815, 3>>, <<14762, 25297, 21020, 32634, 3>>,
       <<14493, 5900, 7691, 25727, 11>>, <<22813, 17913, 13632, 32634, 3>>,
       <<17293, 2381, 15621, 25683, 3>>, <<3286, 4293, 6382, 32634, 3>>,
       <<1149, 25032, 26646, 25603, 3>>, <<23702, 8955, 32038, 32633, 3>>,
       <<10388, 18257, 15351, 25780, 3>>, <<25144, 23786, 25065, 32633, 3>>,
       <<18557, 25832, 30819, 25658, 3>>, <<9791, 8037, 18233, 32633, 3>>,
       <<26610, 12351, 7342, 25602, 3>>, <<31965, 19396, 11541, 32633, 3>>,
       <<2142, 32482, 25068, 25781, 11>>, <<25473, 17386, 4991, 32633, 3>>,
       <<11057, 23059, 24453, 25623, 3>>, <<24289, 27199, 31351, 32632, 3>>,
       <<16378, 13535, 1644, 25065, 11>>, <<22928, 8629, 25087, 32632, 3>>,
       <<2740, 25624, 24073, 25689, 3>>, <<779, 19912, 18966, 32632, 3>>,
       <<19343, 5021, 21066, 25456, 3>>, <<12118, 21116, 12990, 32632, 3>>,
       <<11190, 7009, 13781, 25626, 3>>, <<14101, 5219, 7160, 32632, 3>>,
       <<29772, 17752, 2055, 25650, 3>>, <<22577, 30873, 1475, 32632, 3>>,
       <<30794, 15271, 29925, 25726, 3>>, <<5887, 25800, 28706, 32631, 3>>,
       <<23300, 30492, 3584, 25653, 11>>, <<8177, 16165, 23317, 32631, 3>>,
       <<20584, 6294, 11191, 25746, 11>>, <<10699, 28277, 18076, 32631, 3>>,
       <<11662, 13986, 8160, 25800, 11>>, <<22630, 23051, 12985, 32631, 3>>,
       <<14034, 32040, 18336, 25486, 11>>, <<8183, 27083, 8044, 32631, 3>>,
       <<6933, 26524, 25702, 25800, 11>>, <<10469, 1575, 3255, 32631, 3>>,
       <<19565, 20052, 32034, 25644, 3>>, <<13346, 6180, 31385, 32630, 3>>,
       <<27018, 29776, 18817, 25752, 11>>, <<28, 2393, 26900, 32630, 3>>,
       <<2395, 4143, 7741, 25285, 11>>, <<11818, 17390, 22568, 32630, 3>>,
       <<6683, 20115, 12909, 25569, 11>>, <<10391, 12961, 18391, 32630, 3>>,
       <<11281, 16773, 4021, 25115, 3>>, <<2349, 16579, 14369, 32630, 3>>,
       <<25839, 30220, 6180, 25779, 3>>, <<87, 23098, 10503, 32630, 3>>,
       <<889, 13634, 13191, 25462, 3>>, <<15568, 27522, 6794, 32630, 3>>,
       <<4656, 32286, 32312, 25759, 3>>, <<21470, 25007, 3243, 32630, 3>>,
       <<12208, 30453, 17210, 25524, 3>>, <<10791, 10860, 32619, 32629, 3>>,
       <<24695, 22185, 30455, 25752, 3>>, <<23821, 13307, 29386, 32629, 3>>,
       <<9102, 227, 20688, 25724, 11>>, <<11431, 27962, 26313, 32629, 3>>,
       <<9033, 14631, 31539, 25662, 11>>, <<26178, 17822, 23402, 32629, 3>>,
       <<14431, 31262, 31514, 25542, 11>>, <<20354, 11578, 20653, 32629, 3>>,
       <<23798, 22774, 18715, 25648, 11>>, <<4623, 5307, 18067, 32629, 3>>,
       <<22414, 12795, 21524, 25753, 3>>, <<10202, 28010, 15644, 32629, 3>>,
       <<6917, 24341, 25308, 25564, 3>>, <<18429, 10543, 13387, 32629, 3>>,
       <<21513, 17464, 3975, 25731, 3>>, <<21545, 14992, 11295, 32629, 3>>,
       <<18154, 8243, 7701, 24998, 3>>, <<18103, 5298, 9370, 32629, 3>>,
       <<16437, 22217, 19352, 25761, 3>>, <<8520, 11098, 7612, 32629, 3>>,
       <<30367, 17202, 4393, 25703, 11>>, <<23561, 29421, 6022, 32629, 3>>,
       <<19880, 30686, 20244, 25697, 11>>, <<21893, 24692, 4602, 32629, 3>>,
       <<27054, 4695, 19938, 25634, 11>>, <<17184, 27033, 3352, 32629, 3>>,
       <<22616, 28844, 15221, 25758, 11>>, <<8741, 1194, 2274, 32629, 3>>,
       <<6500, 252, 17066, 25272, 3>>, <<10611, 10393, 1367, 32629, 3>>,
       <<8744, 32444, 20414, 25757, 11>>, <<15309, 19710, 633, 32629, 3>>,
       <<14722, 3689, 19126, 25424, 11>>, <<23231, 27159, 73, 32629, 3>>,
       <<10734, 28891, 8126, 25371, 11>>, <<6703, 30922, 32456, 32628, 3>>,
       <<2129, 10689, 28917, 25606, 11>>, <<5252, 29347, 32247, 32628, 3>>,
       <<16079, 31924, 32145, 25536, 11>>, <<24436, 20952, 32215, 32628, 3>>,
       <<32176, 278, 14635, 25655, 11>>, <<372, 4427, 32361, 32628, 3>>,
       <<26250, 15531, 25800, 25648, 11>>, <<26569, 11396, 32685, 32628, 3>>,
       <<21715, 15379, 29485, 25732, 3>>, <<23871, 8124, 421, 32629, 3>>,
       <<9501, 29339, 19314, 25561, 11>>, <<391, 26582, 1105, 32629, 3>>,
       <<16491, 10447, 13301, 25767, 3>>, <<16690, 609, 1972, 32629, 3>>,
       <<27733, 22444, 12166, 25391, 3>>, <<20066, 28062, 3020, 32629, 3>>,
       <<20290, 24423, 1812, 25669, 11>>, <<6674, 10364, 4253, 32629, 3>>,
       <<14132, 25206, 9947, 25755, 11>>, <<19987, 12953, 5670, 32629, 3>>,
       <<32542, 29747, 31248, 25602, 11>>, <<18349, 3143, 7273, 32629, 3>>,
       <<22382, 12516, 20803, 25766, 11>>, <<4845, 13961, 9062, 32629, 3>>,
       <<2560, 13853, 13725, 25733, 3>>, <<26265, 13076, 11039, 32629, 3>>,
       <<27316, 993, 23743, 25709, 3>>, <<8411, 1109, 13205, 32629, 3>>,
       <<26623, 14731, 22914, 25389, 11>>, <<17548, 11626, 15560, 32629, 3>>,
       <<24388, 13286, 23053, 25567, 3>>, <<30518, 12842, 18106, 32629, 3>>,
       <<15747, 20028, 9342, 25752, 11>>, <<32710, 5923, 20844, 32629, 3>>,
       <<7721, 5848, 9954, 25325, 11>>, <<17893, 24987, 23774, 32629, 3>>,
       <<14681, 31009, 4069, 25441, 11>>, <<21007, 6032, 26899, 32629, 3>>,
       <<31146, 17897, 3340, 25746, 11>>, <<20048, 16316, 30218, 32629, 3>>,
       <<3659, 11981, 10675, 25646, 11>>, <<1978, 24980, 965, 32630, 3>>,
       <<20007, 22307, 16368, 25485, 3>>, <<28816, 1351, 4678, 32630, 3>>,
       <<29627, 16916, 18647, 25454, 3>>, <<8995, 13254, 8588, 32630, 3>>,
       <<8803, 17604, 5136, 25662, 11>>, <<25957, 30395, 12697, 32630, 3>>,
       <<12757, 18372, 29211, 25688, 3>>, <<11571, 22676, 17007, 32630, 3>>,
       <<15125, 10105, 28487, 25741, 11>>, <<9565, 25724, 21518, 32630, 3>>,
       <<12754, 14812, 12486, 25734, 3>>, <<13144, 9825, 26232, 32630, 3>>,
       <<23219, 23782, 9745, 25635, 3>>, <<32191, 10995, 31149, 32630, 3>>,
       <<7604, 12061, 32566, 25622, 11>>, <<29562, 32679, 3502, 32631, 3>>,
       <<13191, 9622, 27102, 25696, 3>>, <<21421, 12981, 8830, 32631, 3>>,
       <<23034, 5539, 28221, 25731, 11>>, <<13926, 21275, 14364, 32631, 3>>,
       <<11962, 11705, 3941, 25262, 11>>, <<5627, 28830, 20106, 32631, 3>>,
       <<30272, 31565, 4152, 25733, 11>>, <<22842, 7114, 26058, 32631, 3>>,
       <<4916, 29019, 23504, 25414, 11>>, <<24135, 26102, 32219, 32631, 3>>,
       <<2613, 22193, 15241, 25743, 11>>, <<1610, 24898, 5824, 32632, 3>>,
       <<24013, 5311, 32604, 25511, 3>>, <<16850, 8343, 12410, 32632, 3>>,
       <<6316, 29989, 30703, 25741, 11>>, <<7689, 14254, 19209, 32632, 3>>,
       <<3251, 24926, 15032, 25499, 3>>, <<21148, 15114, 26223, 32632, 3>>,
       <<32148, 14655, 3273, 25719, 3>>, <<20602, 16383, 685, 32633, 3>>,
       <<22956, 8722, 575, 25639, 3>>, <<20811, 23727, 8132, 32633, 3>>,
       <<6759, 28828, 14012, 25374, 3>>, <<26549, 10253, 15798, 32633, 3>>,
       <<6504, 22820, 11441, 25403, 3>>, <<4201, 14815, 23683, 32633, 3>>,
       <<13778, 1945, 10338, 25604, 11>>, <<17402, 10939, 31789, 32633, 3>>,
       <<31343, 32767, 13684, 25725, 11>>, <<2428, 5135, 7349, 32634, 3>>,
       <<10569, 28907, 14008, 25728, 11>>, <<2546, 4123, 15900, 32634, 3>>,
       <<1959, 19578, 3606, 25509, 3>>, <<9351, 14839, 24675, 32634, 3>>,
       <<8719, 16512, 18040, 25620, 11>>, <<920, 11667, 908, 32635, 3>>,
       <<4780, 11139, 26947, 25714, 3>>, <<12933, 1974, 10136, 32635, 3>>,
       <<27467, 22530, 26982, 25633, 3>>, <<13408, 26115, 19591, 32635, 3>>,
       <<15903, 3944, 21636, 25622, 11>>, <<7007, 26359, 29276, 32635, 3>>,
       <<3529, 30350, 10980, 25673, 11>>, <<8489, 10731, 6424, 32636, 3>>,
       <<2259, 16501, 22545, 25509, 3>>, <<16374, 20246, 16571, 32636, 3>>,
       <<29297, 9018, 6065, 25630, 3>>, <<19587, 30606, 26951, 32636, 3>>,
       <<4592, 8103, 23626, 25727, 11>>, <<4314, 17737, 4798, 32637, 3>>,
       <<29821, 17478, 14947, 25709, 11>>, <<26609, 23324, 15648, 32637, 3>>,
       <<8200, 852, 3825, 25718, 3>>, <<23079, 23746, 26735, 32637, 3>>,
       <<27442, 1875, 11859, 25633, 3>>, <<14999, 28375, 5292, 32638, 3>>,
       <<1518, 25507, 4772, 25683, 3>>, <<17728, 14044, 16857, 32638, 3>>,
       <<25581, 18551, 24299, 25713, 11>>, <<15892, 23353, 28662, 32638, 3>>,
       <<19869, 6947, 9453, 25532, 3>>, <<4312, 829, 7942, 32639, 3>>,
       <<19593, 705, 5893, 25240, 3>>, <<29169, 22302, 20232, 32639, 3>> >>

\* log_inline(ix): log(x) as the double y and its tail, for x > 0.  x is
\* z * 2^k with z near 1: k and the table's entry i come from the bits of x
\* less PowOff, in 64-bit arithmetic; log(x) is k * ln 2 + log(c) +
\* log1p(z / c - 1) with c near the middle of the interval i
log_inline(x) ==
    LET ix == AsUint64(x)
        tmp == IF BigCmp(ix, PowOff) >= 0 THEN BigSub(ix, PowOff)
               ELSE BigSub(BigAdd(ix, BigShl(<<1>>, WordBits)), PowOff)
        i == BigToInt(BigShr(tmp, MantissaBits - 1 - PowLogTableBits)) % 2^PowLogTableBits
        top == BigToInt(BigShr(tmp, MantissaBits - 1))
        k == IF top >= 2^ExponentBits THEN top - 2^(ExponentBits + 1) ELSE top
        z == [x EXCEPT !.e = @ - k]
        kd == FromInt(k)
        invc == PowLogTab[i + 1][1]
        logc == PowLogTab[i + 1][2]
        logctail == PowLogTab[i + 1][3]
        A == PowLogPoly
        r == FMA(z, invc, FNeg(One))
        t1 == FMA(kd, PowLn2hi, logc)
        t2 == FAdd(t1, r)
        lo1 == FMA(kd, PowLn2lo, logctail)
        lo2 == FAdd(FSub(t1, t2), r)
        ar == FMul(A[1], r)
        ar2 == FMul(r, ar)
        ar3 == FMul(r, ar2)
        hi == FAdd(t2, ar2)
        lo3 == FMA(ar, r, FNeg(ar2))
        lo4 == FAdd(FSub(t2, hi), ar2)
        p == FMA(ar2,
                 FMA(FMA(r, A[7], A[6]), ar2, FMA(r, A[5], A[4])),
                 FMA(r, A[3], A[2]))
        lo == FMA(ar3, p, FAdd(FAdd(FAdd(lo1, lo2), lo3), lo4))
        y == FAdd(hi, lo)
    IN  [y |-> y, tail |-> FAdd(FSub(hi, y), lo)]

\* exp_inline(x, xtail): exp(x + xtail), for 2^-54 <= |x| < 2^9.  x is
\* k * ln 2 / N + r with a whole k and N = 2^ExpTableBits; exp(x) is
\* 2^(k / N) * exp(r), the power of two read from the table as scale and
\* tail
exp_inline(x, xtail) ==
    LET C == ExpPoly
        shifted == FMA(x, ExpInvLn2N, ExpShift)
        ki == AsUint64(shifted)
        kd == FSub(shifted, ExpShift)
        r == FAdd(xtail, FMA(kd, ExpNegLn2loN, FMA(kd, ExpNegLn2hiN, x)))
        idx == 2 * (BigToInt(BigLow(ki, ExpTableBits)))
        top == BigLow(BigShl(ki, MantissaBits - 1 - ExpTableBits), WordBits)
        tail == AsDouble(ExpTab[idx + 1])
        sbits == BigLow(BigAdd(ExpTab[idx + 2], top), WordBits)
        r2 == FMul(r, r)
        tmp == FMA(FMA(r, C[4], C[3]), FMul(r2, r2),
                   FMA(FMA(r, C[2], C[1]), r2, FAdd(r, tail)))
        scale == AsDouble(sbits)
        abstop == BigToInt(BigShr(AsUint64(x), MantissaBits - 1)) % 2^ExponentBits
    IN  CASE ExponentBias - 54 <= abstop /\ abstop < ExponentBias + 9 ->
                 FMA(tmp, scale, scale)

\* pow(x, y) of the C library (glibc 2.36, the variant for a processor
\* with fused multiply-add), for x > 0: exp(y * log(x))
pow(x, y) ==
    LET l == log_inline(x)
        ehi == FMul(y, l.y)
        elo == FMA(y, l.tail, FMA(l.y, y, FNeg(ehi)))
    IN  exp_inline(ehi, elo)

\* the whole numbers 2, ..., 8 as floats and pow(n, 2.0) of each, computed
\* once: the sum of the ratios of a run without drops is the number of its
\* flows
SmallWholes == [n \in 2..8 |-> FromInt(n)]
SmallSquares == [n \in 2..8 |-> pow(SmallWholes[n], FromInt(2))]

\* x ** 2: float_pow of CPython gives 0.0 for a zero and 1.0 for 1.0 and
\* -1.0, and otherwise calls pow(|x|, 2.0)
FPow2(x) ==
    LET a == [x EXCEPT !.neg = FALSE]
    IN  IF x.m = <<>> THEN Zero
        ELSE IF a = One THEN One
        ELSE IF \E n \in DOMAIN SmallWholes : a = SmallWholes[n]
        THEN SmallSquares[CHOOSE n \in DOMAIN SmallWholes : a = SmallWholes[n]]
        ELSE pow(a, FromInt(2))

\* a / b of two whole numbers (true division)
TrueDiv(a, b) == FDiv(FromInt(a), FromInt(b))

\* sum(...) of a list of whole numbers
RECURSIVE Sum(_)
Sum(xs) == IF xs = <<>> THEN 0 ELSE Head(xs) + Sum(Tail(xs))

\* sum(...) of a list of floats: from 0, the items added one by one from the
\* first
RECURSIVE FSumFrom(_, _, _)
FSumFrom(xs, i, total) ==
    IF i > Len(xs) THEN total ELSE FSumFrom(xs, i + 1, FAdd(total, xs[i]))

FSum(xs) == FSumFrom(xs, 1, Zero)

\* Packet.get_latency and Packet.get_waiting_time
get_latency(p) ==
    IF IsNone(p.finish_time) THEN None ELSE Some(Val(p.finish_time) - p.arrival_time)

get_waiting_time(p) ==
    IF IsNone(p.start_time) THEN None ELSE Some(Val(p.start_time) - p.arrival_time)

\* [f(p) for p in ps if f(p) is not None], f(p) given as the list of its values
NotNone(os) == LET kept == SelectSeq(os, LAMBDA o : ~IsNone(o))
               IN  [i \in DOMAIN kept |-> Val(kept[i])]

----------------------------------------------------------------------------
(* all_flows of get_metrics is a set, and `for flow_id in all_flows`       *)
(* visits it in the order of its hash table (setobject.c of CPython): a    *)
(* table of SetMinSize slots at first, a flow id f >= 0 hashing to f.  A   *)
(* table is the sequence of its slots, each None or a key; slot i (from 0) *)
(* is at place i + 1.                                                      *)

SetMinSize == 8
LinearProbes == 9
PerturbShift == 5

\* a table of `size` unused slots
RECURSIVE UnusedSlots(_)
UnusedSlots(size) == IF size = 0 THEN <<>> ELSE Append(UnusedSlots(size - 1), None)

EmptySet == UnusedSlots(SetMinSize)

\* set_add_entry's search: the slot where `key` is or, when it is not in the
\* table, the unused slot it goes to.  From slot i the next LinearProbes
\* slots are tried when they all exist, then the slot (5i + 1 + perturb) mod
\* the table's size, perturb being the hash shifted right by PerturbShift
\* bits once more
RECURSIVE SetLookup(_, _, _, _, _)
SetLookup(table, key, i, probe, perturb) ==
    LET linear == IF i + LinearProbes <= Len(table) - 1 THEN LinearProbes ELSE 0
        entry == table[i + probe + 1]
    IN  IF IsNone(entry) \/ entry = Some(key) THEN i + probe
        ELSE IF probe < linear THEN SetLookup(table, key, i, probe + 1, perturb)
        ELSE LET shifted == perturb \div 2^PerturbShift
             IN  SetLookup(table, key, (i * 5 + 1 + shifted) % Len(table), 0, shifted)

SetInsert(table, key) ==
    [table EXCEPT ![SetLookup(table, key, key % Len(table), 0, key) + 1] = Some(key)]

\* set_table_resize: a table of the first size above `minused`, the keys
\* inserted again in the order of their slots
RECURSIVE SetSizeFor(_, _)
SetSizeFor(size, minused) ==
    IF size <= minused THEN SetSizeFor(2 * size, minused) ELSE size

RECURSIVE SetCopyFrom(_, _, _)
SetCopyFrom(old, i, new) ==
    IF i > Len(old) THEN new
    ELSE SetCopyFrom(old, i + 1,
                     IF IsNone(old[i]) THEN new ELSE SetInsert(new, Val(old[i])))

SetResize(table, minused) ==
    SetCopyFrom(table, 1, UnusedSlots(SetSizeFor(SetMinSize, minused)))

\* set.add(key): a new key is inserted, and the table is resized for four
\* times its keys once three fifths of it are in use (a set of flow ids stays
\* far below the 50000 keys from which the factor is two)
SetAdd(table, key) ==
    LET added == SetInsert(table, key)
        fill == Cardinality({i \in DOMAIN added : ~IsNone(added[i])})
    IN  IF added = table \/ fill * 5 < (Len(table) - 1) * 3 THEN added
        ELSE SetResize(added, 4 * fill)

\* the keys added one by one from place i of the list
RECURSIVE SetAddAll(_, _, _)
SetAddAll(table, keys, i) ==
    IF i > Len(keys) THEN table
    ELSE LET added == SetAdd(table, keys[i])
         IN  IF added = table THEN SetAddAll(table, keys, i + 1)
             ELSE SetAddAll(added, keys, i + 1)

\* the order in which a for loop visits the set
SetIter(table) == NotNone(table)

----------------------------------------------------------------------------
(* QueueingStrategy.get_metrics *)

\* mutant of JainIndex: the sum of the ratios is not squared
JainIndexSumNotSquared(ratios) ==
    IF Len(ratios) > 1
    THEN LET sum_ratios == FSum(ratios)
             sum_sq_ratios == FSum([i \in DOMAIN ratios |-> FPow2(ratios[i])])
         IN  IF ~FLe(sum_sq_ratios, Zero)
             THEN FDiv(sum_ratios, FMul(FromInt(Len(ratios)), sum_sq_ratios))
             ELSE Zero
    ELSE IF Len(ratios) = 1 THEN One
    ELSE Zero

\* Jain's index of the flows' throughput ratios
JainIndex(ratios) ==
    IF Len(ratios) > 1
    THEN LET sum_ratios == FSum(ratios)
             sum_sq_ratios == FSum([i \in DOMAIN ratios |-> FPow2(ratios[i])])
         IN  IF ~FLe(sum_sq_ratios, Zero)
             THEN FDiv(FPow2(sum_ratios),
                       FMul(FromInt(Len(ratios)), sum_sq_ratios))
             ELSE Zero
    ELSE IF Len(ratios) = 1 THEN One
    ELSE Zero

\* the record get_metrics() returns, as a dict in the order of its keys.  A
\* number is recorded by its value: a count or a literal 0, which Python
\* returns as an int n, is the float of the same value (n == float(n))
get_metrics ==
    IF processed_packets = <<>>
    THEN << [k |-> "avg_latency", v |-> Zero],
            [k |-> "avg_waiting_time", v |-> Zero],
            [k |-> "throughput", v |-> Zero],
            [k |-> "total_packets", v |-> Zero],
            [k |-> "fairness_index", v |-> Zero],
            [k |-> "flow_fairness_index", v |-> Zero] >>
    ELSE
    LET latencies ==
            NotNone([i \in DOMAIN processed_packets |-> get_latency(processed_packets[i])])
        waiting_times ==
            NotNone([i \in DOMAIN processed_packets |-> get_waiting_time(processed_packets[i])])
        avg_latency ==
            IF latencies # <<>> THEN TrueDiv(Sum(latencies), Len(latencies)) ELSE Zero
        avg_waiting_time ==
            IF waiting_times # <<>> THEN TrueDiv(Sum(waiting_times), Len(waiting_times))
            ELSE Zero
        throughput ==
            IF current_time > 0 THEN TrueDiv(Len(processed_packets), current_time)
            ELSE Zero
        all_flows ==
            SetAddAll(SetAddAll(EmptySet,
                                [i \in DOMAIN processed_packets |->
                                    processed_packets[i].priority], 1),
                      [i \in DOMAIN dropped_packets |-> dropped_packets[i].priority], 1)
        flow_processed(f) ==
            Cardinality({i \in DOMAIN processed_packets : processed_packets[i].priority = f})
        flow_offered(f) ==
            flow_processed(f)
                + Cardinality({i \in DOMAIN dropped_packets : dropped_packets[i].priority = f})
        flows == SetIter(all_flows)
        flow_throughput_ratios ==
            [i \in DOMAIN flows |->
                IF flow_offered(flows[i]) > 0
                THEN TrueDiv(flow_processed(flows[i]), flow_offered(flows[i]))
                ELSE Zero]
        total_offered == Len(processed_packets) + Len(dropped_packets)
        drop_rate ==
            IF total_offered > 0 THEN TrueDiv(Len(dropped_packets), total_offered)
            ELSE Zero
    IN  << [k |-> "avg_latency", v |-> avg_latency],
           [k |-> "avg_waiting_time", v |-> avg_waiting_time],
           [k |-> "throughput", v |-> throughput],
           [k |-> "total_packets", v |-> FromInt(Len(processed_packets))],
           [k |-> "dropped_packets", v |-> FromInt(Len(dropped_packets))],
           [k |-> "drop_rate", v |-> drop_rate],
           [k |-> "flow_fairness_index", v |-> JainIndex(flow_throughput_ratios)] >>

----------------------------------------------------------------------------
(* simulation.py: Simulator.run *)

\* mutant of SortedByArrival: equal arrival times come out in reverse order
RECURSIVE SortedUnstable(_)
SortedUnstable(ps) ==
    IF ps = <<>> THEN <<>>
    ELSE LET s == SortedUnstable(Front(ps))
             x == Last(ps)
             n == Cardinality({i \in DOMAIN s : s[i].arrival_time < x.arrival_time})
         IN  SubSeq(s, 1, n) \o <<x>> \o SubSeq(s, n + 1, Len(s))

\* sorted(packets, key=lambda p: p.arrival_time): a stable sort
RECURSIVE SortedByArrival(_)
SortedByArrival(ps) ==
    IF ps = <<>> THEN <<>>
    ELSE LET s == SortedByArrival(Front(ps))
             x == Last(ps)
             n == Cardinality({i \in DOMAIN s : s[i].arrival_time <= x.arrival_time})
         IN  SubSeq(s, 1, n) \o <<x>> \o SubSeq(s, n + 1, Len(s))

\* mutant of CanAdmit: the arrival time is not compared with the clock
CanAdmitBeforeArrival ==
    packet_idx < Len(packets)

\* the test of the inner while loop
CanAdmit ==
    /\ packet_idx < Len(packets)
    /\ packets[packet_idx + 1].arrival_time <= current_time

\* the lists run() can be given: packet i of the list has id i - 1
Inputs ==
    UNION {
        {[i \in 1..n |-> Packet(i - 1, f[i][1], f[i][2], f[i][3])] :
            f \in [1..n -> ArrivalTimes \X Priorities \X ServiceTimes]}
        : n \in 0..MaxPackets}

\* Simulator(strategy) on a freshly constructed strategy, before run(packets)
Init ==
    /\ \E cfg \in Configs : Constructed(cfg[1], cfg[2], cfg[3])
    /\ packets \in Inputs
    /\ packet_idx = 0
    /\ pc = "start"

\* run(): sort the packets, reset the strategy's clock and processed list
Start ==
    /\ pc = "start"
    /\ packets' = SortedByArrival(packets)
    /\ current_time' = 0
    /\ processed_packets' = <<>>
    /\ packet_idx' = 0
    /\ pc' = "run"
    /\ UNCHANGED <<fixed_vars, dropped_packets, queue, heap, queues,
                   current_queue_index, flow_queues, virtual_time,
                   flow_finish_times, flow_service_received, returned, raised,
                   rr_owed>>

\* one turn of the inner while loop: add_packet, then packet_idx += 1
Admit ==
    /\ pc = "run"
    /\ CanAdmit
    /\ add_packet(packets[packet_idx + 1])
    /\ IF raised' = ""
       THEN packet_idx' = packet_idx + 1 /\ pc' = pc
       ELSE packet_idx' = packet_idx /\ pc' = "raised"
    /\ packets' = packets

\* "if not self.strategy.is_empty(): self.strategy.process_next()"
Service ==
    /\ pc = "run"
    /\ ~CanAdmit
    /\ ~is_empty
    /\ process_next
    /\ UNCHANGED run_vars

\* mutant of Jump: the clock is set to the arrival time of the packet before
\* the cursor (index packet_idx - 1, the last packet when the cursor is at 0)
JumpToPrevious ==
    /\ pc = "run"
    /\ ~CanAdmit
    /\ is_empty
    /\ packet_idx < Len(packets)
    /\ current_time' =
           packets[IF packet_idx = 0 THEN Len(packets) ELSE packet_idx].arrival_time
    /\ UNCHANGED <<fixed_vars, processed_packets, dropped_packets, queue, heap,
                   queues, current_queue_index, flow_queues, virtual_time,
                   flow_finish_times, flow_service_received, run_vars, returned,
                   raised, rr_owed>>

\* mutant of Jump: the clock jumps although packets are queued
JumpWhileQueued ==
    /\ pc = "run"
    /\ ~CanAdmit
    /\ packet_idx < Len(packets)
    /\ current_time' = packets[packet_idx + 1].arrival_time
    /\ UNCHANGED <<fixed_vars, processed_packets, dropped_packets, queue, heap,
                   queues, current_queue_index, flow_queues, virtual_time,
                   flow_finish_times, flow_service_received, run_vars, returned,
                   raised, rr_owed>>

\* "else: jump to next packet arrival"
Jump ==
    /\ pc = "run"
    /\ ~CanAdmit
    /\ is_empty
    /\ packet_idx < Len(packets)
    /\ current_time' = packets[packet_idx + 1].arrival_time
    /\ UNCHANGED <<fixed_vars, processed_packets, dropped_packets, queue, heap,
                   queues, current_queue_index, flow_queues, virtual_time,
                   flow_finish_times, flow_service_received, run_vars, returned,
                   raised, rr_owed>>

\* the outer while condition is false: run() returns
Finish ==
    /\ pc = "run"
    /\ ~(packet_idx < Len(packets))
    /\ is_empty
    /\ pc' = "done"
    /\ UNCHANGED <<strategy_vars, packets, packet_idx, returned, raised, rr_owed>>

Next == Start \/ Admit \/ Service \/ Jump \/ Finish

Spec == Init /\ [][Next]_vars

\* run() is sequential code: a step that can be taken is taken
FairSpec == Spec /\ WF_vars(Next)

----------------------------------------------------------------------------
(* The discipline driven directly: any interleaving of add_packet and      *)
(* process_next on a freshly constructed instance.  `packets` records the  *)
(* packets offered so far.                                                 *)

\* the packets a caller may offer next; an attribute the discipline never
\* reads is held at one value
ApiPackets ==
    LET ids == IF name = RR THEN (0..MaxOps) \ {packets[i].id : i \in DOMAIN packets}
               ELSE {Len(packets)}
        arrivals == IF name = PQ THEN ArrivalTimes ELSE {0}
        priorities == IF name \in {PQ, FQ, LAS} THEN Priorities ELSE {1}
        services == IF name \in {FQ, LAS} THEN ServiceTimes ELSE {1}
    IN  {Packet(i, a, p, s) : i \in ids, a \in arrivals, p \in priorities, s \in services}

InitApi ==
    /\ \E cfg \in Configs : Constructed(cfg[1], cfg[2], cfg[3])
    /\ packets = <<>>
    /\ packet_idx = 0
    /\ pc = "api"

ApiAdd ==
    /\ pc = "api"
    /\ Len(packets) < MaxOps
    /\ \E packet \in ApiPackets :
          /\ add_packet(packet)
          /\ packets' = Append(packets, packet)
    /\ UNCHANGED <<packet_idx, pc>>

ApiProcess ==
    /\ pc = "api"
    /\ process_next
    /\ UNCHANGED run_vars

NextApi == ApiAdd \/ ApiProcess

SpecApi == InitApi /\ [][NextApi]_vars

----------------------------------------------------------------------------
(* The constructors given a negative capacity or a non-positive number of  *)
(* containers, the instance then driven as above.                          *)

InvalidConfigs ==
    ({FCFS, FQ, LAS} \X {Some(-1)} \X {0}) \cup ({RR} \X {None} \X {-1, 0})

InitInvalidArgs ==
    /\ \E cfg \in InvalidConfigs : Constructed(cfg[1], cfg[2], cfg[3])
    /\ packets = <<>>
    /\ packet_idx = 0
    /\ pc = "api"

SpecInvalidArgs == InitInvalidArgs /\ [][NextApi]_vars

----------------------------------------------------------------------------
(* Two flows with the same arrival pattern, run through an unbounded        *)
(* FairQueue by the Simulator: at each arrival of the pattern one packet   *)
(* of each flow, as in the list of test_fair_queue_fairness.               *)

MaxPairs == 3

\* the ids of a list start at 0 or, as in the test, at 1
FirstIds == {0, 1}

\* one packet of each flow per arrival of the pattern; `first` is the flow
\* whose packet comes first in the list, service[f] the service time of the
\* packets of flow f, first_id the id of the first packet.  The test's list
\* is TwoFlowInput(<<0, 0>>, <<1, 2>>, 1, 1).
TwoFlowInput(pattern, service, first, first_id) ==
    [i \in 1..(2 * Len(pattern)) |->
        LET flow_id == IF i % 2 = 1 THEN first ELSE 3 - first
        IN  Packet(first_id + i - 1, pattern[(i + 1) \div 2], flow_id, service[flow_id])]

InitTwoFlows ==
    /\ Constructed(FQ, None, 0)
    /\ \E n \in 0..MaxPairs : \E pattern \in [1..n -> ArrivalTimes] :
       \E service \in [1..2 -> ServiceTimes] : \E first \in {1, 2} :
       \E first_id \in FirstIds :
          packets = TwoFlowInput(pattern, service, first, first_id)
    /\ packet_idx = 0
    /\ pc = "start"

SpecTwoFlows == InitTwoFlows /\ [][Next]_vars

----------------------------------------------------------------------------
(* An unbounded FairQueue run by the Simulator on longer inputs.           *)

MaxFairPackets == 4

\* the lists run() is given here are those of Inputs, up to MaxFairPackets
\* packets long
InitFairRun ==
    /\ Constructed(FQ, None, 0)
    /\ \E n \in 0..MaxFairPackets :
       \E f \in [1..n -> ArrivalTimes \X Priorities \X ServiceTimes] :
          packets = [i \in 1..n |-> Packet(i - 1, f[i][1], f[i][2], f[i][3])]
    /\ packet_idx = 0
    /\ pc = "start"

SpecFairRun == InitFairRun /\ [][Next]_vars

----------------------------------------------------------------------------
(* A FairQueue of capacity 20, the smallest of demo_packet_dropping.py,     *)
(* run by the Simulator on one burst of three flows of equal size.  The    *)
(* lists are built packet by packet with Packet(...); they are not the     *)
(* traffic of PacketGenerator, whose flows have random sizes, arrival      *)
(* times and service times.  For flows of equal size the generator lays    *)
(* the packets out flow by flow in increasing flow id, which is the order  *)
(* <<1, 2, 3>> with chunk = size.                                          *)

DemoCapacity == 20
DemoFlows == 3
MaxFlowPackets == 8

\* the orders in which the three flows can come
FlowOrders ==
    {o \in [1..DemoFlows -> 1..DemoFlows] : \A i, j \in 1..DemoFlows : o[i] = o[j] => i = j}

\* the flow of the packet at place i (from 0) of the burst: the flows take
\* turns, in the given order, with `chunk` packets a turn; what is left of
\* each flow when the whole turns are over comes flow by flow
FlowAt(i, size, chunk, order) ==
    LET whole == DemoFlows * chunk * (size \div chunk)
        rest == size % chunk
    IN  IF i < whole
        THEN order[(i % (DemoFlows * chunk)) \div chunk + 1]
        ELSE order[(i - whole) \div rest + 1]

\* `size` packets of each flow, all arriving at `arrival`
ThreeFlowInput(size, chunk, order, arrival, service) ==
    [i \in 1..(DemoFlows * size) |->
        Packet(i - 1, arrival, FlowAt(i - 1, size, chunk, order), service)]

\* more packets than the capacity: size * DemoFlows > DemoCapacity
InitThreeFlows ==
    /\ Constructed(FQ, Some(DemoCapacity), 0)
    /\ \E size \in (DemoCapacity \div DemoFlows + 1)..MaxFlowPackets :
       \E chunk \in 1..size : \E order \in FlowOrders :
       \E arrival \in ArrivalTimes : \E service \in ServiceTimes :
          packets = ThreeFlowInput(size, chunk, order, arrival, service)
    /\ packet_idx = 0
    /\ pc = "start"

SpecThreeFlows == InitThreeFlows /\ [][Next]_vars

----------------------------------------------------------------------------
(* Properties *)

\* every packet held by a container of the discipline, container by container
Queued ==
    queue \o heap \o Flatten(queues)
          \o Flatten([i \in DOMAIN flow_queues |-> flow_queues[i].v])

Count(s, id) == Cardinality({i \in DOMAIN s : s[i].id = id})

Ids(s) == {s[i].id : i \in DOMAIN s}

\* C1: capacity conservation.  When run() has returned, the processed and the
\* dropped packets together number the input packets, and the discipline is
\* empty.
CapacityConservation ==
    pc = "done" =>
        /\ Len(processed_packets) + Len(dropped_packets) = Len(packets)
        /\ is_empty

\* a LAS run that returned after both servicing and evicting packets
CapacityConservationWitness ==
    /\ pc = "done"
    /\ name = LAS
    /\ processed_packets # <<>>
    /\ dropped_packets # <<>>

\* C2: in every state of a run each packet the cursor has passed is in exactly
\* one of {queued, processed, dropped}, exactly once; a packet not yet offered
\* is in none; when run() has returned every input packet is in exactly one of
\* {processed, dropped}.
ExactlyOnePlace ==
    /\ \A i \in DOMAIN packets :
          LET id == packets[i].id
              n == Count(Queued, id) + Count(processed_packets, id)
                       + Count(dropped_packets, id)
          IN  IF pc # "start" /\ i <= packet_idx THEN n = 1 ELSE n = 0
    /\ pc = "done" =>
          \A i \in DOMAIN packets :
              /\ Count(Queued, packets[i].id) = 0
              /\ Count(processed_packets, packets[i].id)
                     + Count(dropped_packets, packets[i].id) = 1

\* a run in which one packet is queued, one processed and one dropped
ExactlyOnePlaceWitness ==
    /\ pc = "run"
    /\ Queued # <<>>
    /\ processed_packets # <<>>
    /\ dropped_packets # <<>>

\* a step of run() can be taken: the guards of Start, Admit, Service, Jump and
\* Finish
RunCanStep ==
    \/ pc = "start"
    \/ pc = "run" /\ CanAdmit
    \/ pc = "run" /\ ~CanAdmit /\ ~is_empty
    \/ pc = "run" /\ ~CanAdmit /\ is_empty /\ packet_idx < Len(packets)
    \/ pc = "run" /\ ~(packet_idx < Len(packets)) /\ is_empty

\* C3: Simulator.run terminates and its loop exits exactly when the cursor is
\* exhausted and the discipline is empty: a run that is under way can take a
\* step, and a run that is over has consumed its input and left the
\* discipline empty.
RunExitsWhenExhaustedAndEmpty ==
    /\ pc \in {"start", "run"} => RunCanStep
    /\ pc \notin {"start", "run"} =>
          /\ pc = "done"
          /\ packet_idx = Len(packets)
          /\ is_empty

\* what is left of a run: it falls with every step of run()
JumpPending ==
    pc = "run" /\ ~CanAdmit /\ is_empty /\ packet_idx < Len(packets)

RunMeasure ==
    3 * (Len(packets) - packet_idx) + 2 * Len(Queued)
        + (IF JumpPending THEN 1 ELSE 0)
        + (CASE pc = "start" -> 3 [] pc = "run" -> 1 [] OTHER -> 0)

NoBound == IsNone(max_queue_size)

AllInputsProcessed ==
    \A i \in DOMAIN packets : Count(processed_packets, packets[i].id) = 1

\* C4: with no capacity bound nothing is ever dropped and every input packet
\* is eventually in processed_packets: until run() returns a step can be taken,
\* every step lowers RunMeasure (so run() returns), and when it has returned
\* every input packet is in processed_packets.
UnboundedAllProcessed ==
    /\ [](NoBound =>
            /\ dropped_packets = <<>>
            /\ pc \in {"start", "run"} => RunCanStep
            /\ pc \notin {"start", "run"} => pc = "done" /\ AllInputsProcessed)
    /\ [][NoBound => RunMeasure' < RunMeasure]_vars

\* an unbounded Round-Robin run that has processed three packets
UnboundedAllProcessedWitness ==
    /\ pc = "done"
    /\ NoBound
    /\ name = RR
    /\ Len(processed_packets) >= 3

\* C5: FCFS order.  The packets FCFS has processed, followed by those it holds,
\* are in arrival order, equal arrival times in input order (a packet's id is
\* its place in the input); when run() has returned the processed packets are
\* exactly the input packets that were not dropped.
ArrivalOrdered(s) ==
    \A i, j \in DOMAIN s :
        i < j => \/ s[i].arrival_time < s[j].arrival_time
                 \/ s[i].arrival_time = s[j].arrival_time /\ s[i].id < s[j].id

FCFSOrder ==
    name = FCFS /\ pc # "start" =>
        /\ ArrivalOrdered(processed_packets \o queue)
        /\ pc = "done" =>
              Ids(processed_packets) = Ids(packets) \ Ids(dropped_packets)

\* an FCFS run whose input was not in arrival order, in which of two packets
\* with equal arrival time the earlier in the input was processed and the
\* later was dropped
FCFSOrderWitness ==
    /\ name = FCFS
    /\ pc = "done"
    /\ Len(processed_packets) >= 2
    /\ processed_packets[1].id # 0
    /\ \E i \in DOMAIN processed_packets : \E j \in DOMAIN dropped_packets :
          /\ processed_packets[i].arrival_time = dropped_packets[j].arrival_time
          /\ processed_packets[i].id < dropped_packets[j].id

\* a step in which process_next serviced a packet, and that packet
ServicedOne == Len(processed_packets') = Len(processed_packets) + 1
Selected == Last(processed_packets')

\* C6: every PriorityQueue.process_next on a non-empty heap selects a packet
\* of maximal priority among the queued packets and, among those, of minimal
\* arrival time.
PrioritySelection ==
    [][(ApiProcess /\ name = PQ /\ heap # <<>>) =>
          /\ ServicedOne
          /\ \E i \in DOMAIN heap : heap[i].id = Selected.id
          /\ \A i \in DOMAIN heap :
                /\ heap[i].priority <= Selected.priority
                /\ heap[i].priority = Selected.priority =>
                       Selected.arrival_time <= heap[i].arrival_time]_vars

\* a high-priority packet offered after a low-priority one was processed
\* before it, and a packet offered before both was processed after a peer of
\* its priority that arrived earlier
PrioritySelectionWitness ==
    /\ name = PQ
    /\ Len(processed_packets) >= 3
    /\ processed_packets[1].priority > processed_packets[3].priority
    /\ processed_packets[1].id > processed_packets[3].id
    /\ processed_packets[1].priority = processed_packets[2].priority
    /\ processed_packets[1].arrival_time < processed_packets[2].arrival_time
    /\ processed_packets[1].id > processed_packets[2].id

\* C7: round-robin rotation.  When a container is selected, every container
\* that was non-empty when it was last selected has been selected since.
RoundRobinRotation ==
    [][(name = RR /\ ServicedOne) => rr_owed[RRQueueIdx(Selected) + 1] = {}]_vars

\* a container selected, then another, then the first again
RoundRobinRotationWitness ==
    /\ name = RR
    /\ Len(processed_packets) >= 3
    /\ RRQueueIdx(processed_packets[1]) = RRQueueIdx(processed_packets[3])
    /\ RRQueueIdx(processed_packets[1]) # RRQueueIdx(processed_packets[2])

\* C8: Fair Queue monotonicity.  For two flows with equal arrival pattern and
\* equal service time, after every prefix of the processed sequence the
\* numbers of packets processed from the two flows differ by at most one.
FlowCount(s, flow_id) == Cardinality({i \in DOMAIN s : s[i].priority = flow_id})

\* every packet run() is given has the same service time
EqualServiceTime ==
    \A i, j \in DOMAIN packets : packets[i].service_time = packets[j].service_time

FairQueueMonotonicity ==
    EqualServiceTime =>
        \A n \in 0..Len(processed_packets) :
            LET prefix == SubSeq(processed_packets, 1, n)
                d == FlowCount(prefix, 1) - FlowCount(prefix, 2)
            IN  -1 <= d /\ d <= 1

\* the flows of a LAS discipline that have queued packets
LASActive == {f \in Keys(flow_queues) : Get(flow_queues, f) # <<>>}

\* C9: every LASQueue.process_next on a non-empty discipline dequeues the head
\* packet of a flow whose service received is minimal among the flows with
\* queued packets, and adds the packet's service time to that flow's
\* accumulator.
LASSelection ==
    [][(ApiProcess /\ name = LAS /\ ~FlowsIsEmpty) =>
          /\ ServicedOne
          /\ LET f == GetFlowId(Selected) IN
             /\ f \in LASActive
             /\ Head(Get(flow_queues, f)).id = Selected.id
             /\ Get(flow_queues', f) = Tail(Get(flow_queues, f))
             /\ \A g \in LASActive :
                    Get(flow_service_received, f) <= Get(flow_service_received, g)
             /\ Get(flow_service_received', f) =
                    Get(flow_service_received, f) + Selected.service_time
             /\ \A g \in Keys(flow_queues) \ {f} :
                    /\ Get(flow_queues', g) = Get(flow_queues, g)
                    /\ Get(flow_service_received', g) = Get(flow_service_received, g)]_vars

\* a flow with no service received was selected although a flow that had
\* received service was created first and still has queued packets
LASSelectionWitness ==
    /\ name = LAS
    /\ Len(processed_packets) >= 2
    /\ Len(flow_queues) >= 2
    /\ flow_queues[1].v # <<>>
    /\ LET f == GetFlowId(Last(processed_packets)) IN
       /\ f # flow_queues[1].k
       /\ Get(flow_service_received, f) = Last(processed_packets).service_time
       /\ Get(flow_service_received, flow_queues[1].k)
              > Get(flow_service_received, f)

\* an add_packet that finds the total of queued packets at the bound
LASAtBound ==
    name = LAS /\ ~IsNone(max_queue_size)
        /\ SumLen(flow_queues) >= Val(max_queue_size)

\* exactly one packet is dropped: the tail of a flow whose service received is
\* greatest among the flows with queued packets; the incoming packet is queued
\* at the tail of its flow and no other queue changes
LASDropsElephantTail ==
    LET incoming == Last(packets')
        QueueOf(d, h) == IF Has(d, h) THEN Get(d, h) ELSE <<>>
    IN  \E f \in LASActive :
        /\ \A g \in LASActive :
               Get(flow_service_received, g) <= Get(flow_service_received, f)
        /\ dropped_packets' = Append(dropped_packets, Last(Get(flow_queues, f)))
        /\ Keys(flow_queues') = Keys(flow_queues) \cup {GetFlowId(incoming)}
        /\ \A h \in Keys(flow_queues') :
               LET kept == IF h = f THEN Front(Get(flow_queues, f))
                           ELSE QueueOf(flow_queues, h)
               IN  Get(flow_queues', h) =
                       IF h = GetFlowId(incoming) THEN Append(kept, incoming) ELSE kept

\* C10: whenever add_packet finds the total of queued packets at the bound,
\* exactly one packet is dropped and nothing is raised, and the dropped packet
\* is the tail of the flow with the greatest service received among the flows
\* with queued packets whenever there is such a flow (with none queued the
\* packet to drop is the incoming one)
LASFairDropAtBound ==
    [][(ApiAdd /\ LASAtBound) =>
          /\ raised' = ""
          /\ Len(dropped_packets') = Len(dropped_packets) + 1
          /\ LASActive # {} => LASDropsElephantTail
          /\ LASActive = {} =>
                 /\ dropped_packets' = Append(dropped_packets, Last(packets'))
                 /\ flow_queues' = flow_queues]_vars

\* the part of C10 that the code keeps: whenever add_packet finds the total at
\* the bound and a packet is queued, the tail of the flow with the greatest
\* service received is dropped and the incoming packet is queued
LASFairDrop ==
    [][(ApiAdd /\ LASAtBound /\ LASActive # {}) => LASDropsElephantTail]_vars

\* a packet of the flow with the least service received evicted the tail of
\* the other flow, which had received more service
LASFairDropWitness ==
    /\ name = LAS
    /\ max_queue_size = Some(2)
    /\ dropped_packets # <<>>
    /\ Len(flow_queues) = 2
    /\ LET f == GetFlowId(Last(dropped_packets))
           g == GetFlowId(Last(packets))
       IN  /\ f # g
           /\ Get(flow_service_received, f) > Get(flow_service_received, g)
           /\ Get(flow_queues, f) # <<>>
           /\ Last(Get(flow_queues, g)) = Last(packets)

\* C11: fair-share admission.  FairQueue.add_packet with a bound set drops the
\* incoming packet if and only if its flow's queue already holds at least
\* max(1, bound div current_flow_count) packets, the flows counted being those
\* present at the admission, the incoming packet's flow included; otherwise the
\* packet is appended to its flow's queue; a drop leaves every flow queue
\* unchanged.
FairShareAdmission ==
    [][(ApiAdd /\ name = FQ /\ ~IsNone(max_queue_size)) =>
          LET incoming == Last(packets')
              f == incoming.priority
              held == IF Has(flow_queues, f) THEN Get(flow_queues, f) ELSE <<>>
              current_flow_count == Cardinality(Keys(flow_queues) \cup {f})
              share == Val(max_queue_size) \div current_flow_count
              per_flow_limit == IF share > 1 THEN share ELSE 1
          IN  IF Len(held) >= per_flow_limit
              THEN /\ dropped_packets' = Append(dropped_packets, incoming)
                   /\ flow_queues' = flow_queues
              ELSE /\ dropped_packets' = dropped_packets
                   /\ Keys(flow_queues') = Keys(flow_queues) \cup {f}
                   /\ Get(flow_queues', f) = Append(held, incoming)
                   /\ \A g \in Keys(flow_queues) \ {f} :
                          Get(flow_queues', g) = Get(flow_queues, g)]_vars

\* with a bound of three shared by two flows, a packet was dropped because its
\* flow already held one packet, the whole part of three halves
FairShareAdmissionWitness ==
    /\ name = FQ
    /\ max_queue_size = Some(3)
    /\ processed_packets = <<>>
    /\ Len(flow_queues) = 2
    /\ dropped_packets # <<>>
    /\ Last(dropped_packets) = Last(packets)
    /\ Len(Get(flow_queues, GetFlowId(Last(packets)))) = 1

\* C12: with FairQueue capacity 20 and three equal-size flows offered under
\* congestion, when the run has ended the drop counts of any two flows differ
\* by at most one, whatever the order of the flows' packets in the input.
EqualDropCounts ==
    pc = "done" =>
        \A f, g \in 1..DemoFlows :
            FlowCount(dropped_packets, f) - FlowCount(dropped_packets, g) <= 1

\* the fields the metrics record is to have
MetricsFields ==
    {"avg_latency", "avg_waiting_time", "throughput", "total_packets",
     "dropped_packets", "drop_rate", "fairness_index", "flow_fairness_index"}

\* C13: the metrics record run() returns always contains average latency,
\* average waiting time, throughput, total processed count, total dropped
\* count, drop rate, 'fairness_index' and 'flow_fairness_index', whether or
\* not any packet was processed or dropped.
MetricsRecordComplete ==
    pc = "done" => MetricsFields \subseteq Keys(get_metrics)

\* C14: the drop rate reported after a run is dropped / (processed + dropped)
\* for every outcome of the run, and 0 when nothing was offered.
DropRateReported ==
    pc = "done" =>
        /\ Has(get_metrics, "drop_rate")
        /\ Get(get_metrics, "drop_rate") =
               IF Len(processed_packets) + Len(dropped_packets) = 0 THEN Zero
               ELSE TrueDiv(Len(dropped_packets),
                            Len(processed_packets) + Len(dropped_packets))

\* C15: the per-packet and the per-flow fairness index of the record are
\* within [0,1].
FairnessIndicesInUnitInterval ==
    pc = "done" =>
        \A key \in {"fairness_index", "flow_fairness_index"} :
            /\ Has(get_metrics, key)
            /\ FLe(Zero, Get(get_metrics, key))
            /\ FLe(Get(get_metrics, key), One)

\* the flows of the packets offered in the run
OfferedFlows ==
    {processed_packets[i].priority : i \in DOMAIN processed_packets}
        \cup {dropped_packets[i].priority : i \in DOMAIN dropped_packets}

\* C16: when exactly one flow exists among the packets offered in a run, the
\* per-flow fairness index is 1, whatever share of its packets was dropped.
SingleFlowFairnessIsOne ==
    (pc = "done" /\ Cardinality(OfferedFlows) = 1) =>
        Get(get_metrics, "flow_fairness_index") = One

\* C17: invalid construction parameters fail fast: no RoundRobinQueue exists
\* with num_queues <= 0 and no FCFSQueue, FairQueue or LASQueue with a
\* negative max_queue_size.
InvalidConstructionRejected ==
    /\ name = RR => num_queues > 0
    /\ (name \in {FCFS, FQ, LAS} /\ ~IsNone(max_queue_size)) => Val(max_queue_size) >= 0

\* an add_packet that hits the bound of its discipline: the FCFS queue or the
\* LAS total at the bound, the Fair Queue flow at its share
AdmissionHitsBound ==
    /\ ~IsNone(max_queue_size)
    /\ CASE name = FCFS -> Len(queue) >= Val(max_queue_size)
         [] name = LAS -> SumLen(flow_queues) >= Val(max_queue_size)
         [] name = FQ ->
              LET f == GetFlowId(Last(packets'))
                  held == IF Has(flow_queues, f) THEN Get(flow_queues, f) ELSE <<>>
                  share == Val(max_queue_size)
                               \div Cardinality(Keys(flow_queues) \cup {f})
              IN  Len(held) >= (IF share > 1 THEN share ELSE 1)
         [] OTHER -> FALSE

\* C18: for every discipline with a bound, every bound >= 0 and every state,
\* an admission that hits the bound appends one packet to dropped_packets and
\* raises nothing.
BoundResolvedByDrop ==
    [][(ApiAdd /\ AdmissionHitsBound) =>
          /\ raised' = ""
          /\ Len(dropped_packets') = Len(dropped_packets) + 1]_vars

\* C19: process_next on an empty discipline returns None and leaves
\* current_time, processed_packets and dropped_packets unchanged; the pointer
\* of RoundRobinQueue ends where it started.
EmptySelection ==
    [][(ApiProcess /\ is_empty) =>
          /\ returned' = None
          /\ raised' = ""
          /\ UNCHANGED <<current_time, processed_packets, dropped_packets,
                         current_queue_index>>]_vars

\* the last process_next of a Round-Robin discipline found it empty, after
\* packets had been processed, with the pointer away from container 0
EmptySelectionWitness ==
    /\ name = RR
    /\ processed_packets # <<>>
    /\ returned = None
    /\ is_empty
    /\ current_queue_index # 0

\* every packet held by the discipline or listed by it
Held == Queued \o processed_packets \o dropped_packets

\* finish_time is set iff start_time is set and the packet is in
\* processed_packets exactly once; queued and dropped packets have neither
PacketTimingInvariant ==
    /\ \A i \in DOMAIN Held :
          ~IsNone(Held[i].finish_time) <=>
              (~IsNone(Held[i].start_time) /\ Count(processed_packets, Held[i].id) = 1)
    /\ \A i \in DOMAIN processed_packets : ~IsNone(processed_packets[i].finish_time)
    /\ \A i \in DOMAIN (Queued \o dropped_packets) :
          /\ IsNone((Queued \o dropped_packets)[i].start_time)
          /\ IsNone((Queued \o dropped_packets)[i].finish_time)

\* C20: packet timing.  In every state of a run PacketTimingInvariant holds,
\* and the start and finish time of a processed packet never change again.
PacketTiming ==
    /\ []PacketTimingInvariant
    /\ [][\A i \in DOMAIN processed_packets :
             /\ i \in DOMAIN processed_packets'
             /\ processed_packets'[i] = processed_packets[i]]_vars

\* a LAS run has ended with a packet evicted from its queue and a packet that
\* waited before it was serviced
PacketTimingWitness ==
    /\ pc = "done"
    /\ name = LAS
    /\ dropped_packets # <<>>
    /\ \E i \in DOMAIN processed_packets :
          Val(processed_packets[i].start_time) > processed_packets[i].arrival_time

\* C21: each of the five disciplines supports the size capability: in every
\* state get_queue_size() returns the number of packets queued, and it is 0
\* exactly when is_empty() is true.
QueueSizeSupported ==
    /\ get_queue_size.raised = ""
    /\ get_queue_size.value = Len(Queued)
    /\ get_queue_size.value = 0 <=> is_empty

\* the flows of a Fair Queue that have queued packets
ActiveFlows == {f \in Keys(flow_queues) : Get(flow_queues, f) # <<>>}

\* the candidate virtual finish time of the head packet of flow f
CandidateFinish(f) ==
    LET last == IF Has(flow_finish_times, f) THEN Get(flow_finish_times, f) ELSE 0
    IN  (IF virtual_time > last THEN virtual_time ELSE last)
            + Head(Get(flow_queues, f)).service_time

\* C22: the virtual-finish-time variant.  FairQueue.process_next on a
\* non-empty discipline selects a flow whose candidate, max(virtual clock,
\* flow's last finish) + head service time, is minimal among the flows with
\* queued packets, commits the candidate as the flow's finish time and
\* advances the virtual clock to it.
VirtualFinishSelection ==
    [][(ApiProcess /\ name = FQ /\ ~FlowsIsEmpty) =>
          /\ ServicedOne
          /\ LET f == GetFlowId(Selected) IN
             /\ f \in ActiveFlows
             /\ \A g \in ActiveFlows : CandidateFinish(f) <= CandidateFinish(g)
             /\ Get(flow_finish_times', f) = CandidateFinish(f)
             /\ virtual_time' = CandidateFinish(f)]_vars

\* C24: after any FairQueue.process_next that services a packet, virtual_time
\* is greater than 0 and greater than before the call.
VirtualTimeAdvances ==
    [][(ApiProcess /\ name = FQ /\ ServicedOne) =>
          /\ virtual_time' > 0
          /\ virtual_time' > virtual_time]_vars

\* C23: exact round-robin rotation among active flows.  No flow is served
\* twice in a row while a packet of another flow waits through both services.
\* (run() admits every packet that has arrived before it selects, so a packet
\* that arrived by the start of a service and was processed later, or is
\* still queued, was waiting during that service.)
ExactRotation ==
    \A i \in 1..(Len(processed_packets) - 1) :
        processed_packets[i].priority = processed_packets[i + 1].priority =>
            LET later == SubSeq(processed_packets, i + 2, Len(processed_packets))
                             \o Queued
            IN  \A j \in DOMAIN later :
                    ~ /\ later[j].priority # processed_packets[i].priority
                      /\ later[j].arrival_time <= Val(processed_packets[i].start_time)

\* the ids of a list of packets, in order
IdSeq(s) == [i \in DOMAIN s |-> s[i].id]

\* the packets add_packet has been called with, in the order of the calls
Admitted ==
    CASE pc = "api" -> packets
      [] pc = "start" -> <<>>
      [] OTHER -> SubSeq(packets, 1, packet_idx)

\* C25: RoundRobinQueue.add_packet places every packet in container
\* (packet.id mod num_queues), whatever the admission order, the priority and
\* the pointer, and each container returns its packets in the order they were
\* admitted: for every container, the packets processed from it followed by
\* the packets it holds are the admitted packets with that remainder, in the
\* order they were admitted.
RoundRobinPlacement ==
    name = RR =>
        \A c \in 0..(num_queues - 1) :
            IdSeq(SelectSeq(processed_packets, LAMBDA p : p.id % num_queues = c))
                    \o IdSeq(queues[c + 1])
                = IdSeq(SelectSeq(Admitted, LAMBDA p : p.id % num_queues = c))

\* container 0 of two was given packet 2 before packet 0, the two of
\* different priority, and returned them in that order; the pointer is at
\* container 1
RoundRobinPlacementWitness ==
    /\ name = RR
    /\ num_queues = 2
    /\ current_queue_index = 1
    /\ \E i, j \in DOMAIN processed_packets :
          /\ i < j
          /\ processed_packets[i].id = 2
          /\ processed_packets[j].id = 0
          /\ processed_packets[i].priority # processed_packets[j].priority

\* C26: Fair Queue flow separation.  After any sequence of add_packet calls
\* with no capacity bound (nothing processed yet), flow_queues has exactly one
\* container per priority among the queued packets, and each container holds
\* exactly the packets of that priority in admission order.
FlowSeparation ==
    (name = FQ /\ NoBound /\ processed_packets = <<>>) =>
        /\ Len(flow_queues) = Cardinality(Keys(flow_queues))
        /\ Keys(flow_queues) = {packets[i].priority : i \in DOMAIN packets}
        /\ \A f \in Keys(flow_queues) :
               Get(flow_queues, f) = SelectSeq(packets, LAMBDA p : p.priority = f)

\* two flows whose packets were offered alternately, two packets each
FlowSeparationWitness ==
    /\ name = FQ
    /\ NoBound
    /\ processed_packets = <<>>
    /\ Len(packets) = 4
    /\ \A i \in 1..3 : packets[i].priority # packets[i + 1].priority
    /\ \A f \in Priorities : Has(flow_queues, f) /\ Len(Get(flow_queues, f)) = 2

\* C28: flow counts stay current in FairQueue.  At every admission the flow
\* count used for per_flow_limit (the number of flow containers once the
\* incoming packet's flow is registered) is the number of flows that hold a
\* queued packet, plus one if the incoming packet's flow holds none.
FlowCountCurrent ==
    [][(Admit /\ name = FQ /\ ~IsNone(max_queue_size)) =>
          Len(flow_queues') =
              Cardinality(ActiveFlows \cup {GetFlowId(packets[packet_idx + 1])})]_vars

\* the total of service time granted to flow f so far
GrantedService(f) ==
    Sum([i \in DOMAIN processed_packets |->
            IF processed_packets[i].priority = f
            THEN processed_packets[i].service_time ELSE 0])

\* C29: FairQueue.process_next on a non-empty discipline serves the head of
\* the flow with the smallest accumulated total of granted service time among
\* the flows with queued packets, ties broken by lowest flow id, and adds the
\* packet's service_time to that flow's total.
LeastGrantedFlowSelection ==
    [][(ApiProcess /\ name = FQ /\ ~FlowsIsEmpty) =>
          /\ ServicedOne
          /\ LET f == GetFlowId(Selected) IN
             /\ f \in ActiveFlows
             /\ Head(Get(flow_queues, f)).id = Selected.id
             /\ \A g \in ActiveFlows :
                    \/ GrantedService(f) < GrantedService(g)
                    \/ GrantedService(f) = GrantedService(g) /\ f <= g
             /\ Get(flow_finish_times', f) = GrantedService(f) + Selected.service_time]_vars

\* C30: Fair Queue virtual time is monotonic: no add_packet and no
\* process_next decreases virtual_time.
VirtualTimeMonotonic ==
    [][virtual_time' >= virtual_time]_vars

LASIncomingDropOnlyAsFallback ==
    [][(ApiAdd /\ name = LAS) =>
          LET incoming == Last(packets')
              f == GetFlowId(incoming)
          IN  /\ (\E i \in DOMAIN dropped_packets' :
                     dropped_packets'[i].id = incoming.id) => LASActive = {}
              /\ (LASAtBound /\ LASActive # {}) =>
                     /\ raised' = ""
                     /\ Has(flow_queues', f)
                     /\ Get(flow_queues', f) # <<>>
                     /\ Last(Get(flow_queues', f)) = incoming
                     /\ SumLen(flow_queues') = SumLen(flow_queues)]_vars

\* with a bound of one, the last packet offered took the place of a queued
\* packet of its own flow, which is the last packet dropped
LASIncomingDropOnlyAsFallbackWitness ==
    /\ name = LAS
    /\ max_queue_size = Some(1)
    /\ dropped_packets # <<>>
    /\ Last(dropped_packets).id = Last(packets).id - 1
    /\ GetFlowId(Last(dropped_packets)) = GetFlowId(Last(packets))
    /\ Get(flow_queues, GetFlowId(Last(packets))) = <<Last(packets)>>
    /\ SumLen(flow_queues) = 1

\* C32: FCFS tail-drop frame.  FCFSQueue.add_packet on a queue already holding
\* max_queue_size packets appends the incoming packet to dropped_packets and
\* leaves the queue, current_time and processed_packets unchanged; otherwise
\* it appends the packet to the tail of the queue and leaves dropped_packets,
\* current_time and processed_packets unchanged.
FCFSTailDropFrame ==
    [][(ApiAdd /\ name = FCFS) =>
          LET incoming == Last(packets') IN
          IF ~IsNone(max_queue_size) /\ Len(queue) = Val(max_queue_size)
          THEN /\ dropped_packets' = Append(dropped_packets, incoming)
               /\ UNCHANGED <<queue, current_time, processed_packets>>
          ELSE /\ queue' = Append(queue, incoming)
               /\ UNCHANGED <<dropped_packets, current_time, processed_packets>>]_vars

\* a bounded FCFS queue that has serviced a packet is full again and the last
\* packet offered is the last one dropped
FCFSTailDropFrameWitness ==
    /\ name = FCFS
    /\ ~IsNone(max_queue_size)
    /\ Len(queue) = Val(max_queue_size)
    /\ queue # <<>>
    /\ processed_packets # <<>>
    /\ current_time > 0
    /\ dropped_packets # <<>>
    /\ Last(dropped_packets) = Last(packets)

\* C33: servicing step.  For every discipline, each successful process_next
\* sets the selected packet's start_time to the clock before the call,
\* advances current_time by exactly that packet's service_time, sets
\* finish_time to the new clock and appends the packet to the end of
\* processed_packets; the packet leaves the queues in that one step.
ServicingStep ==
    [][Service =>
          LET p == Last(processed_packets') IN
          /\ returned' = Some(p)
          /\ processed_packets' = Append(processed_packets, p)
          /\ p.start_time = Some(current_time)
          /\ current_time' = current_time + p.service_time
          /\ p.finish_time = Some(current_time')
          /\ \E i \in DOMAIN Queued :
                Queued[i] = [p EXCEPT !.start_time = None, !.finish_time = None]
          /\ Count(Queued, p.id) = 1
          /\ Count(Queued', p.id) = 0
          /\ Len(Queued') = Len(Queued) - 1]_vars

\* a Round-Robin run has serviced, after another packet, a packet of service
\* time 2 in one step while a third packet waits
ServicingStepWitness ==
    /\ name = RR
    /\ pc = "run"
    /\ Len(processed_packets) = 2
    /\ Queued # <<>>
    /\ returned = Some(Last(processed_packets))
    /\ Last(processed_packets).service_time = 2
    /\ Val(Last(processed_packets).start_time) > 0
    /\ current_time = Val(Last(processed_packets).start_time) + 2

\* the clock at which the server is free to start entry i of processed_packets:
\* the finish time of the entry before it, the initial clock for the first
FreeAt(i) ==
    IF i = 1 THEN 0 ELSE Val(processed_packets[i - 1].finish_time)

\* C34: idle-time skip.  During Simulator.run the clock changes other than by
\* a service only when the discipline is empty and input remains, and then it
\* is set exactly to the arrival time of the next unadmitted packet; the server
\* never idles while a packet is queued: each processed packet starts when the
\* server is free, or at its arrival time, a later clock that a jump reached.
IdleTimeSkip ==
    /\ [][(current_time' # current_time /\ ~Service) =>
             /\ is_empty
             /\ packet_idx < Len(packets)
             /\ current_time' = packets[packet_idx + 1].arrival_time
             /\ UNCHANGED <<processed_packets, dropped_packets, Queued,
                            packets, packet_idx>>]_vars
    /\ [](pc \in {"run", "done"} =>
             \A i \in DOMAIN processed_packets :
                LET p == processed_packets[i] IN
                \/ Val(p.start_time) = FreeAt(i)
                \/ Val(p.start_time) > FreeAt(i)
                      /\ Val(p.start_time) = p.arrival_time)

\* a run has ended in which one packet started at a clock reached by a jump
\* and another, which had waited, started when the packet before it finished
IdleTimeSkipWitness ==
    /\ pc = "done"
    /\ \E i \in DOMAIN processed_packets :
          Val(processed_packets[i].start_time) > FreeAt(i)
    /\ \E i \in DOMAIN processed_packets :
          /\ i > 1
          /\ Val(processed_packets[i].start_time) = FreeAt(i)
          /\ processed_packets[i].arrival_time < FreeAt(i)

\* C35: during Simulator.run the clock never decreases and service intervals
\* never overlap: for consecutive entries p, q of processed_packets,
\* q.start_time >= p.finish_time, and for every processed packet
\* finish_time = start_time + service_time.
ClockMonotonicNoOverlap ==
    /\ [][current_time' >= current_time]_vars
    /\ [](/\ \A i \in DOMAIN processed_packets :
                LET p == processed_packets[i] IN
                /\ ~IsNone(p.start_time) /\ ~IsNone(p.finish_time)
                /\ Val(p.finish_time) = Val(p.start_time) + p.service_time
                /\ Val(p.finish_time) <= current_time
          /\ \A i \in 2..Len(processed_packets) :
                Val(processed_packets[i].start_time)
                    >= Val(processed_packets[i - 1].finish_time))

\* a LAS run has ended with three packets processed: the second started after
\* an idle gap, the third as soon as the second finished
ClockMonotonicNoOverlapWitness ==
    /\ pc = "done"
    /\ name = LAS
    /\ Len(processed_packets) = 3
    /\ Val(processed_packets[2].start_time) > Val(processed_packets[1].finish_time)
    /\ Val(processed_packets[3].start_time) = Val(processed_packets[2].finish_time)
    /\ current_time = Val(processed_packets[3].finish_time)

\* C36: no packet is serviced before it arrives.  For every discipline, every
\* packet of processed_packets after Simulator.run has
\* start_time >= arrival_time, so that its waiting time is never negative; a
\* packet is admitted only once its arrival_time <= the clock.
NoServiceBeforeArrival ==
    /\ [][Admit => packets[packet_idx + 1].arrival_time <= current_time]_vars
    /\ [](pc \in {"run", "done"} =>
             /\ \A i \in DOMAIN Queued : Queued[i].arrival_time <= current_time
             /\ \A i \in DOMAIN processed_packets :
                   LET p == processed_packets[i] IN
                   /\ Val(p.start_time) >= p.arrival_time
                   /\ ~IsNone(get_waiting_time(p))
                   /\ Val(get_waiting_time(p)) >= 0)

\* a Priority Queue run has ended in which a packet arriving after time 0 was
\* serviced as soon as it arrived and another packet waited
NoServiceBeforeArrivalWitness ==
    /\ pc = "done"
    /\ name = PQ
    /\ \E i \in DOMAIN processed_packets :
          /\ processed_packets[i].arrival_time > 0
          /\ Val(get_waiting_time(processed_packets[i])) = 0
    /\ \E i \in DOMAIN processed_packets :
          Val(get_waiting_time(processed_packets[i])) > 0

\* C37: for FCFSQueue and LASQueue constructed with a capacity bound B >= 1,
\* the total number of queued packets, get_queue_size(), never exceeds B in
\* any state reached by any sequence of add_packet and process_next calls.
BoundedQueueSize ==
    (name \in {FCFS, LAS} /\ ~IsNone(max_queue_size) /\ Val(max_queue_size) >= 1) =>
        /\ get_queue_size.raised = ""
        /\ get_queue_size.value = Len(Queued)
        /\ get_queue_size.value <= Val(max_queue_size)

\* a LAS queue with a bound holds as many packets as the bound allows, in two
\* flows, after packets have been dropped and serviced
BoundedQueueSizeWitness ==
    /\ name = LAS
    /\ ~IsNone(max_queue_size)
    /\ Val(max_queue_size) >= 1
    /\ get_queue_size.value = Val(max_queue_size)
    /\ Cardinality(LASActive) = 2
    /\ dropped_packets # <<>>
    /\ processed_packets # <<>>

\* C38: for FairQueue constructed with a total-capacity bound B, the total
\* number of queued packets across all flows, get_queue_size(), never exceeds
\* B in any state reached by any sequence of add_packet and process_next
\* calls, also when new flows appear while other flows hold packets and when
\* there are more flows than B.
FairQueueTotalBounded ==
    (name = FQ /\ ~IsNone(max_queue_size)) =>
        /\ get_queue_size.raised = ""
        /\ get_queue_size.value <= Val(max_queue_size)

\* C39: in FairQueue, a packet arriving for a flow that holds no queued packet
\* is always admitted, for every bound (0 included) and however many packets
\* other flows hold; only a flow that already holds at least one packet can
\* have an arrival dropped.
EmptyFlowAlwaysAdmitted ==
    [][(ApiAdd /\ name = FQ) =>
          LET incoming == Last(packets')
              f == GetFlowId(incoming)
              held == IF Has(flow_queues, f) THEN Get(flow_queues, f) ELSE <<>>
          IN  /\ raised' = ""
              /\ held = <<>> =>
                    /\ Has(flow_queues', f)
                    /\ Get(flow_queues', f) = <<incoming>>
                    /\ dropped_packets' = dropped_packets
              /\ dropped_packets' # dropped_packets =>
                    /\ held # <<>>
                    /\ dropped_packets' = Append(dropped_packets, incoming)]_vars

\* a FairQueue with bound 0 holds one packet of each of two flows and has
\* dropped the last packet offered, whose flow already held a packet
EmptyFlowAlwaysAdmittedWitness ==
    /\ name = FQ
    /\ max_queue_size = Some(0)
    /\ Cardinality(ActiveFlows) = 2
    /\ \A g \in ActiveFlows : Len(Get(flow_queues, g)) = 1
    /\ dropped_packets # <<>>
    /\ Last(dropped_packets) = Last(packets)

\* the per-flow fairness index of the record run() returns
FlowFairnessIndex == Get(get_metrics, "flow_fairness_index")

\* a run without drops reports the index 1, and an index below 1 comes with a
\* dropped packet
NoDropMeansFair ==
    dropped_packets = <<>> =>
        LET index == FlowFairnessIndex
        IN  /\ processed_packets # <<>> => index = One
            /\ FLe(One, index)

=============================================================================
